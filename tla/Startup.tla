------------------------------- MODULE Startup -------------------------------
(***************************************************************************)
(* From an empty volume to a running bridge: the container's entrypoint    *)
(* (docker-entrypoint.sh), the generator of the double puppet registration *)
(* (doublepuppet.go), and the connector's start, which makes sure of the   *)
(* network icon (networkicon.go).                                          *)
(*                                                                         *)
(* Every step leaves its result in a file or in the database, and the next *)
(* start goes by what it finds there.  The container is started again      *)
(* whenever it has stopped (docker-compose.yaml), and may be killed        *)
(* between any two steps; the operator does their part meanwhile.          *)
(***************************************************************************)
EXTENDS Naturals

CONSTANTS
    Portals,
    MaxImages,      \* bounds the replacements of the embedded icon
    MaxKills        \* bounds the kills

ASSUME BoundsAssumption == MaxImages \in Nat \ {0} /\ MaxKills \in Nat

VARIABLES
    pc,             \* what the container does next
    config,         \* config.yaml: "none", the "template", or "patched" by sed
    domainSet,      \* config: the operator has filled in the homeserver
    secret,         \* config: double_puppet.secrets has an entry for it
    tokens,         \* config: the registration whose tokens it holds, 0 for none
    registration,   \* registration.yaml: which one it is, 0 for no file
    puppet,         \* doublepuppet-registration.yaml is there
    installed,      \* the registration the homeserver has, 0 for none
    image,          \* the icon embedded in the installed build
    entry,          \* key-value entry: the image uploaded last, and its URI
    infoVersion,    \* key-value entry: "none", "old" or "current"
    fresh,          \* the URI of the upload under way
    networkIcon,    \* in memory: the URI GetName gives, 0 for none
    bridged,        \* the portals there are
    shows,          \* the URI in each portal's bridge info, 0 for none
    torn,           \* history: the config was left half written
    stale,          \* history: the portals were not told of the stored icon
    uploaded,       \* history: how often each image was uploaded
    unrecorded,     \* history: uploads no entry was written for
    kills

files   == <<config, domainSet, secret, tokens, registration, puppet>>
icon    == <<entry, infoVersion, fresh, networkIcon, bridged, shows, stale, uploaded, unrecorded>>
outside == <<installed, image>>
vars    == <<pc, files, outside, icon, torn, kills>>

-----------------------------------------------------------------------------
Scripted == {"config", "patch", "register", "tokens", "puppet", "run"}
Starting == {"icon", "store", "invalidate", "resend"}
Running  == Starting \cup {"up"}
Images   == 1 .. MaxImages

Init ==
    /\ pc = "down"
    /\ config = "none" /\ domainSet = FALSE /\ secret = FALSE /\ tokens = 0
    /\ registration = 0 /\ puppet = FALSE /\ installed = 0
    /\ image = 1
    /\ entry = [image |-> 0, uri |-> 0] /\ infoVersion = "none"
    /\ fresh = 0 /\ networkIcon = 0
    /\ bridged = {} /\ shows = [p \in Portals |-> 0]
    /\ torn = FALSE /\ stale = FALSE
    /\ uploaded = [i \in Images |-> 0] /\ unrecorded = 0
    /\ kills = 0

-----------------------------------------------------------------------------
(* docker-entrypoint.sh.  A step that fails ends the script (set -e), and  *)
(* the steps that succeed end it on purpose.                               *)

Start ==
    /\ pc = "down"
    /\ pc' = "config"
    /\ UNCHANGED <<files, outside, icon, torn, kills>>

WriteConfig ==
    /\ pc = "config" /\ config = "none"
    /\ config' = "template"
    /\ pc' = "patch"
    /\ UNCHANGED <<domainSet, secret, tokens, registration, puppet, outside, icon, torn, kills>>

PatchConfig ==
    /\ pc = "patch"
    /\ config' = "patched"
    /\ pc' = "down"
    /\ UNCHANGED <<domainSet, secret, tokens, registration, puppet, outside, icon, torn, kills>>

(* The registration that is missing; and one that is written each time.    *)
AlwaysRegisters == TRUE
NeedsRegistration == registration = 0

(* want_doublepuppet, and no file yet; and without a look at the file.     *)
WantsPuppet == ~secret
NeedsPuppet == WantsPuppet /\ ~puppet

(* Step 2 is entered for either; and for the registration only.            *)
RegistersOnce == registration = 0
EntersStep2 == registration = 0 \/ NeedsPuppet

CheckFiles ==
    /\ pc = "config" /\ config # "none"
    /\ pc' = CASE EntersStep2 /\ NeedsRegistration  -> "register"
               [] EntersStep2 /\ ~NeedsRegistration -> "puppet"
               [] ~EntersStep2                      -> "run"
    /\ UNCHANGED <<files, outside, icon, torn, kills>>

(* The program's -g writes the file and then saves its tokens in the       *)
(* config; it refuses a config without a homeserver domain.                *)
GenerateRegistration ==
    /\ pc = "register"
    /\ IF domainSet THEN registration' = registration + 1 /\ pc' = "tokens"
                    ELSE UNCHANGED registration /\ pc' = "down"
    /\ UNCHANGED <<config, domainSet, secret, tokens, puppet, outside, icon, torn, kills>>

SaveTokens ==
    /\ pc = "tokens"
    /\ tokens' = registration
    /\ pc' = IF NeedsPuppet THEN "puppet" ELSE "down"
    /\ UNCHANGED <<config, domainSet, secret, registration, puppet, outside, icon, torn, kills>>

(* generateDoublePuppetRegistrationFile: not without a domain, and not     *)
(* over a file that is there.                                              *)
GeneratePuppet ==
    /\ pc = "puppet"
    /\ puppet' = (puppet \/ domainSet)
    /\ pc' = "down"
    /\ UNCHANGED <<config, domainSet, secret, tokens, registration, outside, icon, torn, kills>>

(* The program starts if the config suits it, with a database it can open  *)
(* and the tokens of its registration, and if the homeserver accepts these *)
(* tokens: without the registration installed it would just fail.          *)
TokensAccepted == tokens = registration /\ installed = tokens

Run ==
    /\ pc = "run"
    /\ pc' = IF config = "patched" /\ TokensAccepted THEN "icon" ELSE "down"
    /\ UNCHANGED <<files, outside, icon, torn, kills>>

-----------------------------------------------------------------------------
(* ensureNetworkIcon.                                                      *)

(* The image at hand is the one uploaded last; and any upload will not do. *)
NeverStored == FALSE
Stored == entry.image = image /\ entry.uri # 0

IconStored ==
    /\ pc = "icon" /\ Stored
    /\ networkIcon' = entry.uri
    /\ pc' = "resend"
    /\ UNCHANGED <<files, outside, entry, infoVersion, fresh, bridged, shows, stale, uploaded,
                   unrecorded, torn, kills>>

(* The homeserver refuses the upload: the previous one is kept.            *)
UploadFails ==
    /\ pc = "icon" /\ ~Stored
    /\ networkIcon' = entry.uri
    /\ pc' = "resend"
    /\ UNCHANGED <<files, outside, entry, infoVersion, fresh, bridged, shows, stale, uploaded,
                   unrecorded, torn, kills>>

(* Each upload has a URI of its own.                                       *)
UploadOk ==
    /\ pc = "icon" /\ ~Stored
    /\ fresh' = fresh + 1
    /\ uploaded' = [uploaded EXCEPT ![image] = @ + 1]
    /\ pc' = "store"
    /\ UNCHANGED <<files, outside, entry, infoVersion, networkIcon, bridged, shows, stale,
                   unrecorded, torn, kills>>

StoreIcon ==
    /\ pc = "store"
    /\ entry' = [image |-> image, uri |-> fresh]
    /\ networkIcon' = fresh
    /\ pc' = "invalidate"
    /\ UNCHANGED <<files, outside, infoVersion, fresh, bridged, shows, stale, uploaded,
                   unrecorded, torn, kills>>

(* invalidateBridgeInfoVersion: a version that is current is set back; and *)
(* left as it is.                                                          *)
KeptVersion == infoVersion
Invalidated == IF infoVersion = "current" THEN "old" ELSE infoVersion

Invalidate ==
    /\ pc = "invalidate"
    /\ infoVersion' = Invalidated
    /\ stale' = FALSE
    /\ pc' = "resend"
    /\ UNCHANGED <<files, outside, entry, fresh, networkIcon, bridged, shows, uploaded,
                   unrecorded, torn, kills>>

-----------------------------------------------------------------------------
(* The framework's PostStart: bridge info is sent again to every portal if *)
(* the stored version is not the connector's, which is then stored.  A     *)
(* portal made from here on is made with the icon of that moment.          *)

UpToDate(p) == p \in bridged => shows[p] = networkIcon

Resend(p) ==
    /\ pc = "resend" /\ infoVersion # "current"
    /\ ~UpToDate(p)
    /\ shows' = [shows EXCEPT ![p] = networkIcon]
    /\ UNCHANGED <<pc, files, outside, entry, infoVersion, fresh, networkIcon, bridged, stale,
                   uploaded, unrecorded, torn, kills>>

StoreVersion ==
    /\ pc = "resend"
    /\ infoVersion # "current" => \A p \in Portals : UpToDate(p)
    /\ infoVersion' = "current"
    /\ pc' = "up"
    /\ UNCHANGED <<files, outside, entry, fresh, networkIcon, bridged, shows, stale, uploaded,
                   unrecorded, torn, kills>>

NewPortal(p) ==
    /\ pc \in {"resend", "up"} /\ p \notin bridged
    /\ bridged' = bridged \cup {p}
    /\ shows' = [shows EXCEPT ![p] = networkIcon]
    /\ UNCHANGED <<pc, files, outside, entry, infoVersion, fresh, networkIcon, stale, uploaded,
                   unrecorded, torn, kills>>

-----------------------------------------------------------------------------
(* The container is killed or stopped anywhere.  What is lost for good is  *)
(* noted: a file half done, an upload or a change that left no record.     *)
Kill ==
    /\ kills < MaxKills
    /\ kills' = kills + 1
    /\ pc # "down" /\ pc' = "down"
    /\ networkIcon' = 0
    /\ torn' = (torn \/ pc \in {"patch", "tokens"})
    /\ stale' = (stale \/ pc = "invalidate")
    /\ unrecorded' = IF pc = "store" THEN unrecorded + 1 ELSE unrecorded
    /\ UNCHANGED <<files, outside, entry, infoVersion, fresh, bridged, shows, uploaded>>

(* An orderly stop of the running bridge.                                  *)
Stop ==
    /\ pc = "up" /\ pc' = "down"
    /\ networkIcon' = 0
    /\ UNCHANGED <<files, outside, entry, infoVersion, fresh, bridged, shows, stale, uploaded,
                   unrecorded, torn, kills>>

(* The operator, between two starts: fills in the config, perhaps with a   *)
(* secret of their own; pastes the secret that was printed; installs the   *)
(* registration; puts in a newer build.                                    *)
EditConfig ==
    /\ pc = "down" /\ config # "none" /\ ~domainSet
    /\ domainSet' = TRUE
    /\ secret' \in BOOLEAN
    /\ UNCHANGED <<pc, config, tokens, registration, puppet, outside, icon, torn, kills>>

PasteSecret ==
    /\ pc = "down" /\ puppet /\ ~secret
    /\ secret' = TRUE
    /\ UNCHANGED <<pc, config, domainSet, tokens, registration, puppet, outside, icon, torn, kills>>

InstallRegistration ==
    /\ pc = "down" /\ registration # 0 /\ installed = 0
    /\ installed' = registration
    /\ UNCHANGED <<pc, files, image, icon, torn, kills>>

Upgrade ==
    /\ pc = "down" /\ image < MaxImages
    /\ image' = image + 1
    /\ UNCHANGED <<pc, files, installed, icon, torn, kills>>

-----------------------------------------------------------------------------
Entrypoint ==
    WriteConfig \/ PatchConfig \/ CheckFiles \/ GenerateRegistration \/ SaveTokens \/ GeneratePuppet
Bridge ==
    \/ Run \/ IconStored \/ UploadFails \/ UploadOk \/ StoreIcon \/ Invalidate \/ StoreVersion
    \/ \E p \in Portals : Resend(p)
Operator == EditConfig \/ PasteSecret \/ InstallRegistration \/ Upgrade

Next == Start \/ Entrypoint \/ Bridge \/ Stop \/ Kill \/ Operator \/ \E p \in Portals : NewPortal(p)

Spec == Init /\ [][Next]_vars

(* The container is started whenever it is down, and a start goes on; the  *)
(* operator fills in the config and installs the registration: until then  *)
(* the container stops again and again.                                    *)
FairSpec ==
    /\ Spec
    /\ WF_vars(Start) /\ WF_vars(Entrypoint \/ Bridge)
    /\ SF_vars(EditConfig) /\ SF_vars(InstallRegistration)

-----------------------------------------------------------------------------
(* Every variable keeps its type, and there is one registration at most.   *)
TypeOK ==
    /\ pc \in {"down"} \cup Scripted \cup Running
    /\ config \in {"none", "template", "patched"}
    /\ domainSet \in BOOLEAN /\ secret \in BOOLEAN /\ puppet \in BOOLEAN
    /\ tokens \in 0 .. 1 /\ registration \in 0 .. 1 /\ installed \in 0 .. 1
    /\ image \in Images
    /\ entry \in [image : 0 .. MaxImages, uri : Nat]
    /\ infoVersion \in {"none", "old", "current"}
    /\ fresh \in Nat /\ networkIcon \in Nat
    /\ bridged \subseteq Portals /\ shows \in [Portals -> Nat]
    /\ torn \in BOOLEAN /\ stale \in BOOLEAN
    /\ uploaded \in [Images -> Nat] /\ unrecorded \in 0 .. MaxKills
    /\ kills \in 0 .. MaxKills

(* Wherever a start was interrupted, a bridge that runs has its homeserver *)
(* filled in and either a double puppet registration or a secret, and goes *)
(* on the tokens of the registration that the homeserver has, which no     *)
(* later start replaces (docker-entrypoint.sh:9-11, 58-60 and 69-78).      *)
RunsComplete ==
    pc \in Running =>
        /\ domainSet /\ (puppet \/ secret)
        /\ registration # 0 /\ tokens = registration /\ installed = registration

(* Each portal of a running bridge shows the icon of the moment, whatever  *)
(* uploads failed and whenever starts were interrupted, except that a      *)
(* change recorded by a start that got no further is passed over until the *)
(* next one (networkicon.go:63-68 and 77-81).                              *)
IconsCurrent == pc = "up" /\ ~stale => \A p \in Portals : UpToDate(p)

(* The upload happens "once per homeserver rather than once per start,     *)
(* while still re-uploading if the image is replaced" (networkicon.go:25), *)
(* but for uploads no start lived to record.                               *)
UploadedOnce == \A i \in Images : uploaded[i] <= 1 + unrecorded

(* The bridge comes up, and again after each stop, wherever earlier starts *)
(* were interrupted and whenever the operator gets round to the config and *)
(* to the registration, unless a start left its config half written.       *)
ComesUp == []<>(pc = "up" \/ torn)
=============================================================================
