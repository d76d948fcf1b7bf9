------------------------------ MODULE Avatars ------------------------------
(***************************************************************************)
(* How a ghost gets its avatar: the store of profile events (profile.go),  *)
(* the cache of user info and of uploaded images (avatarcache.go), and the *)
(* lookups that read both (chatinfo.go); and how a reaction gets its image *)
(* from the same cache (reactions.go).                                     *)
(*                                                                         *)
(* A lookup runs in the goroutine of a portal or of the bridge framework,  *)
(* any number of them at a time; profile events and reactions are handled  *)
(* by the sync loop of each login that is in the chat.  The two stores are *)
(* the connector's, so that lookups and loops share them; their mutexes    *)
(* are held for one read or one write, and a request to Reddit or to the   *)
(* homeserver happens between two of them.                                 *)
(*                                                                         *)
(* An avatar is a number that grows when its user changes it, 0 is none;   *)
(* an image is a user and an avatar.  The image of one of Reddit's emoji   *)
(* never changes.                                                          *)
(***************************************************************************)
EXTENDS Naturals, Sequences, FiniteSets

CONSTANTS
    Users,
    Emoji,          \* those that people react with
    Lookups,        \* the goroutines that look up user info
    Loops,          \* the sync loops, one for each login
    HasCookie,      \* CanRefresh: reddit.com can be asked
    MatrixMediaURL, \* whether matrix_media_url is set
    Calm,           \* whether the environment does one thing at a time
    MaxAvatars,     \* bounds the changes of an avatar
    MaxInbox,       \* bounds the events of a sync response
    MaxReactions,   \* bounds the reactions a login gets
    MaxRefusals     \* bounds the refused uploads that are counted

ASSUME UsersAssumption == Users \cap Emoji = {}
ASSUME ActorsAssumption ==
    IsFiniteSet(Lookups) /\ IsFiniteSet(Loops) /\ Lookups \cap Loops = {}
ASSUME SwitchesAssumption == {HasCookie, MatrixMediaURL, Calm} \subseteq BOOLEAN
ASSUME BoundsAssumption ==
    /\ MaxAvatars \in Nat \ {0} /\ MaxInbox \in Nat \ {0}
    /\ MaxReactions \in Nat /\ MaxRefusals \in Nat

Actors  == Lookups \cup Loops
Avatars == 1 .. MaxAvatars
Pictured == Users \cup Emoji
Images  == Pictured \X Avatars

VARIABLES
    mediaServed,    \* where uploads go, there is a media repository
    avatar,         \* Reddit: each user's avatar
    inbox,          \* profile events and reactions each loop has not handled yet
    byUser,         \* profileStore, found by user ID
    byUsername,     \* and by username
    about,          \* aboutCache.entries: the avatar found
    aboutAge,       \* "none", or whether the entry is within aboutCacheTTL
    uploads,        \* aboutCache.uploads
    mediaBroken,
    pc,             \* where each actor is
    of,             \* the user, or the emoji, it is concerned with
    found,          \* the avatar it has found
    ghost,          \* the avatar each ghost has
    queued,         \* reactions each loop has queued for their portal
    reactions,      \* history: reactions posted for each of them
    uploaded,       \* history: how often each image was uploaded
    refusals,       \* history: uploads refused for want of a media repository
    warnings        \* history: how often the log says so

environment == <<mediaServed, avatar>>
profiles    == <<byUser, byUsername>>
abouts      == <<about, aboutAge>>
images      == <<uploads, mediaBroken, uploaded, refusals, warnings>>
actors      == <<pc, of, found>>
results     == <<ghost, queued>>
vars        == <<environment, inbox, reactions, profiles, abouts, images, actors, results>>

-----------------------------------------------------------------------------
Places == {"idle", "profile", "about", "fetch", "store", "check", "upload", "update"}

GoTo(a, l) == pc' = [pc EXCEPT ![a] = l]
Found(a, n) == found' = [found EXCEPT ![a] = n]
Image(a) == <<of[a], found[a]>>

Init ==
    /\ mediaServed \in BOOLEAN
    /\ avatar = [u \in Users |-> 1]
    /\ inbox = [l \in Loops |-> <<>>]
    /\ byUser = [u \in Users |-> 0] /\ byUsername = [u \in Users |-> 0]
    /\ about = [u \in Users |-> 0] /\ aboutAge = [u \in Users |-> "none"]
    /\ uploads = {} /\ mediaBroken = FALSE
    /\ pc = [a \in Actors |-> "idle"]
    /\ of \in [Actors -> Users] /\ found = [a \in Actors |-> 0]
    /\ ghost = [u \in Users |-> 0]
    /\ queued = [l \in Loops |-> 0] /\ reactions = [l \in Loops |-> 0]
    /\ uploaded = [i \in Images |-> 0] /\ refusals = 0 /\ warnings = 0

-----------------------------------------------------------------------------
(* Reddit's users change their avatars, and a profile event rides along    *)
(* with each message they post, to the logins S that are in the chat.      *)
(* They do everything at any time; if Calm, avatars change, or entries of  *)
(* the cache get stale, or people react while nobody is looked up.         *)

Changed == \E u \in Users : avatar[u] # 1
Reacted == \E l \in Loops : reactions[l] # 0
Expired == \E u \in Users : aboutAge[u] = "stale"

Change(u) ==
    /\ Calm => mediaServed /\ ~Reacted /\ ~Expired
    /\ avatar[u] < MaxAvatars
    /\ avatar' = [avatar EXCEPT ![u] = @ + 1]
    /\ UNCHANGED <<mediaServed, inbox, reactions, profiles, abouts, images, actors, results>>

Deliver(S, event) ==
    /\ \A l \in S : Len(inbox[l]) < MaxInbox
    /\ inbox' = [l \in Loops |-> IF l \in S THEN Append(inbox[l], event) ELSE inbox[l]]

PostMessage(u, S) ==
    /\ Deliver(S, <<u, avatar[u]>>)
    /\ UNCHANGED <<environment, reactions, profiles, abouts, images, actors, results>>

-----------------------------------------------------------------------------
(* handleRedditProfile.  The event names no user: it can be attributed     *)
(* only if the message it relates to is stored, and that message, queued   *)
(* just before, is handled by its portal in another goroutine, if at all.  *)
(* Attributed or not, it is stored under the username.                     *)

(* put replaces what is there; and a put that keeps it.                    *)
KeepFirst(old, n) == IF old = 0 THEN n ELSE old
Put(old, n) == n

Handles(l, S) ==
    /\ pc[l] = "idle" /\ inbox[l] # <<>> /\ Head(inbox[l])[1] \in S
    /\ inbox' = [inbox EXCEPT ![l] = Tail(@)]

HandleProfile(l) ==
    /\ Handles(l, Users)
    /\ LET u == Head(inbox[l])[1]
           n == Head(inbox[l])[2]
       IN  /\ byUsername' = [byUsername EXCEPT ![u] = Put(@, n)]
           /\ \/ /\ byUser' = [byUser EXCEPT ![u] = Put(@, n)]
                 /\ of' = [of EXCEPT ![l] = u] /\ Found(l, n)
                 /\ GoTo(l, "check")
              \/ UNCHANGED <<byUser, actors>>
    /\ UNCHANGED <<environment, reactions, abouts, images, results>>

-----------------------------------------------------------------------------
(* handleRedditReaction: the image of the emoji, if its key names one, is  *)
(* fetched and uploaded by the sync loop (rehostReactionImage).            *)

PostReaction(e, S) ==
    /\ Calm => ~Changed /\ ~Expired /\ \A a \in Lookups : pc[a] = "idle"
    /\ \A l \in S : reactions[l] < MaxReactions
    /\ Deliver(S, <<e, 1>>)
    /\ reactions' = [l \in Loops |-> IF l \in S THEN reactions[l] + 1 ELSE reactions[l]]
    /\ UNCHANGED <<environment, profiles, abouts, images, actors, results>>

HandleReaction(l) ==
    /\ Handles(l, Emoji)
    /\ \/ /\ of' = [of EXCEPT ![l] = Head(inbox[l])[1]] /\ Found(l, Head(inbox[l])[2])
          /\ GoTo(l, "check")
          /\ UNCHANGED queued
       \/ /\ queued' = [queued EXCEPT ![l] = @ + 1]
          /\ UNCHANGED actors
    /\ UNCHANGED <<environment, reactions, profiles, abouts, images, ghost>>

-----------------------------------------------------------------------------
(* GetUserInfo and userInfoFor, up to the avatar (fetchAvatar).            *)

StartLookup(a, u) ==
    /\ Calm => ~Reacted
    /\ pc[a] = "idle"
    /\ of' = [of EXCEPT ![a] = u]
    /\ GoTo(a, "profile")
    /\ UNCHANGED <<environment, inbox, reactions, profiles, abouts, images, found, results>>

(* profileStore.get.                                                       *)
ProfileOf(u) == IF byUser[u] # 0 THEN byUser[u] ELSE byUsername[u]

(* A profile event is preferred; without one, reddit.com has to be asked.  *)
ReadProfile(a) ==
    /\ pc[a] = "profile"
    /\ Found(a, ProfileOf(of[a]))
    /\ GoTo(a, CASE ProfileOf(of[a]) # 0               -> "check"
                 [] ProfileOf(of[a]) = 0 /\ HasCookie  -> "about"
                 [] ProfileOf(of[a]) = 0 /\ ~HasCookie -> "idle")
    /\ UNCHANGED <<environment, inbox, reactions, profiles, abouts, images, of, results>>

(* aboutCache.get: an entry within its TTL is used, a failure included.    *)
ReadAbout(a) ==
    /\ pc[a] = "about"
    /\ IF aboutAge[of[a]] = "fresh"
         THEN Found(a, about[of[a]]) /\ GoTo(a, IF about[of[a]] = 0 THEN "idle" ELSE "check")
         ELSE UNCHANGED found /\ GoTo(a, "fetch")
    /\ UNCHANGED <<environment, inbox, reactions, profiles, abouts, images, of, results>>

(* UserAbout: the avatar of that moment, or a failure.                     *)
FetchAbout(a) ==
    /\ pc[a] = "fetch"
    /\ Found(a, avatar[of[a]]) \/ Found(a, 0)
    /\ GoTo(a, "store")
    /\ UNCHANGED <<environment, inbox, reactions, profiles, abouts, images, of, results>>

StoreAbout(a) ==
    /\ pc[a] = "store"
    /\ about' = [about EXCEPT ![of[a]] = found[a]]
    /\ aboutAge' = [aboutAge EXCEPT ![of[a]] = "fresh"]
    /\ GoTo(a, IF found[a] = 0 THEN "idle" ELSE "check")
    /\ UNCHANGED <<environment, inbox, reactions, profiles, images, of, found, results>>

Expire(u) ==
    /\ Calm => mediaServed /\ ~Changed /\ ~Reacted
    /\ aboutAge[u] = "fresh"
    /\ aboutAge' = [aboutAge EXCEPT ![u] = "stale"]
    /\ UNCHANGED <<environment, inbox, reactions, profiles, about, images, actors, results>>

-----------------------------------------------------------------------------
(* uploadAvatar.                                                           *)

(* Without an image a ghost is left alone, while a reaction is queued with *)
(* the bare key of its emoji; and is dropped.                              *)
DroppedWithoutImage(a) == queued
WithoutImage(a) == IF of[a] \in Emoji THEN [queued EXCEPT ![a] = @ + 1] ELSE queued

(* The latch under the first lock; and the check forgotten.                *)
NeverSkipped == FALSE
Skipped == mediaBroken

CheckUpload(a) ==
    /\ pc[a] = "check"
    /\ GoTo(a, IF Skipped THEN "idle" ELSE IF Image(a) \in uploads THEN "update" ELSE "upload")
    /\ queued' = IF Skipped THEN WithoutImage(a) ELSE queued
    /\ UNCHANGED <<environment, inbox, reactions, profiles, abouts, images, of, found, ghost>>

(* The cache after an upload; and an upload that is not remembered.        *)
Forgotten(a) == uploads
Remembered(a) == uploads \cup {Image(a)}

UploadOk(a) ==
    /\ pc[a] = "upload" /\ mediaServed
    /\ uploads' = Remembered(a)
    /\ uploaded' = [uploaded EXCEPT ![Image(a)] = @ + 1]
    /\ GoTo(a, "update")
    /\ UNCHANGED <<environment, inbox, reactions, profiles, abouts, mediaBroken, refusals,
                   warnings, of, found, results>>

(* The download, or the upload, fails for a reason that may pass.          *)
UploadFails(a) ==
    /\ pc[a] = "upload"
    /\ GoTo(a, "idle")
    /\ queued' = WithoutImage(a)
    /\ UNCHANGED <<environment, inbox, reactions, profiles, abouts, images, of, found, ghost>>

(* Only the first to find out says so; and a warning from each.            *)
EachWarns == TRUE
First == ~mediaBroken

(* The refusal of the framework's client is recognised by its code; that   *)
(* of matrix_media_url comes as an error without one (uploadViaMediaURL),  *)
(* and is taken for a failure that may pass.                               *)
UploadUnrecognized(a) ==
    /\ pc[a] = "upload" /\ ~mediaServed
    /\ refusals < MaxRefusals
    /\ refusals' = refusals + 1
    /\ IF MatrixMediaURL
         THEN UNCHANGED <<mediaBroken, warnings>>
         ELSE /\ mediaBroken' = TRUE
              /\ warnings' = IF First THEN warnings + 1 ELSE warnings
    /\ GoTo(a, "idle")
    /\ queued' = WithoutImage(a)
    /\ UNCHANGED <<environment, inbox, reactions, profiles, abouts, uploads, uploaded, of, found,
                   ghost>>

(* The ghost's info is updated; info without an avatar leaves it alone.    *)
UpdateGhost(a) ==
    /\ pc[a] = "update" /\ of[a] \in Users
    /\ ghost' = [ghost EXCEPT ![of[a]] = found[a]]
    /\ GoTo(a, "idle")
    /\ UNCHANGED <<environment, inbox, reactions, profiles, abouts, images, of, found, queued>>

(* The reaction is queued with its image.                                  *)
QueueReaction(l) ==
    /\ pc[l] = "update" /\ of[l] \in Emoji
    /\ queued' = [queued EXCEPT ![l] = @ + 1]
    /\ GoTo(l, "idle")
    /\ UNCHANGED <<environment, inbox, reactions, profiles, abouts, images, of, found, ghost>>

-----------------------------------------------------------------------------
Upload(a) ==
    CheckUpload(a) \/ UploadOk(a) \/ UploadFails(a) \/ UploadUnrecognized(a) \/ UpdateGhost(a)
Lookup(a) == ReadProfile(a) \/ ReadAbout(a) \/ FetchAbout(a) \/ StoreAbout(a)

Next ==
    \/ \E u \in Users : Change(u) \/ Expire(u)
    \/ \E S \in SUBSET Loops \ {{}} :
          \/ \E u \in Users : PostMessage(u, S)
          \/ \E e \in Emoji : PostReaction(e, S)
    \/ \E l \in Loops : HandleProfile(l) \/ HandleReaction(l) \/ QueueReaction(l)
    \/ \E a \in Lookups : Lookup(a) \/ \E u \in Users : StartLookup(a, u)
    \/ \E a \in Actors : Upload(a)

Spec == Init /\ [][Next]_vars

(* Goroutines that have begun go on, and an upload tried again and again   *)
(* to a homeserver that takes uploads succeeds.  Nobody has to post, to    *)
(* change an avatar, or to look one up.                                    *)
Fairness ==
    /\ \A l \in Loops : WF_vars(HandleProfile(l) \/ HandleReaction(l) \/ QueueReaction(l))
    /\ \A a \in Lookups : WF_vars(Lookup(a))
    /\ \A a \in Actors : WF_vars(Upload(a)) /\ SF_vars(UploadOk(a))

FairSpec == Spec /\ Fairness

-----------------------------------------------------------------------------
(* Every variable keeps its type, and the log says once at most that the   *)
(* homeserver serves no media (avatarcache.go:82-93).                      *)
TypeOK ==
    /\ mediaServed \in BOOLEAN
    /\ avatar \in [Users -> Avatars]
    /\ inbox \in [Loops -> Seq(Images)] /\ \A l \in Loops : Len(inbox[l]) <= MaxInbox
    /\ byUser \in [Users -> 0 .. MaxAvatars] /\ byUsername \in [Users -> 0 .. MaxAvatars]
    /\ about \in [Users -> 0 .. MaxAvatars] /\ aboutAge \in [Users -> {"none", "fresh", "stale"}]
    /\ uploads \subseteq Images
    /\ mediaBroken \in BOOLEAN
    /\ pc \in [Actors -> Places]
    /\ of \in [Actors -> Pictured] /\ found \in [Actors -> 0 .. MaxAvatars]
    /\ ghost \in [Users -> 0 .. MaxAvatars]
    /\ queued \in [Loops -> Nat] /\ reactions \in [Loops -> 0 .. MaxReactions]
    /\ uploaded \in [Images -> Nat] /\ refusals \in Nat
    /\ warnings \in 0 .. 1

(* The same image is not uploaded over and over: as often as there are     *)
(* goroutines at most, which is when all of them missed the cache together *)
(* (avatarcache.go:31-33); and an emoji as often as there are logins,      *)
(* since each handles its reactions one after the other                    *)
(* (reactions.go:132-140).                                                 *)
UploadsBounded ==
    \A i \in Images : uploaded[i] <= Cardinality(IF i[1] \in Emoji THEN Loops ELSE Actors)

(* No reaction gets lost or doubled over its image, which may fail at any  *)
(* step: those posted for a login have been queued for their portals, but  *)
(* for the ones that wait and the one in hand (reactions.go:118-127).      *)
Waiting(l) == Cardinality({i \in 1 .. Len(inbox[l]) : inbox[l][i][1] \in Emoji})
InHand(l)  == IF pc[l] # "idle" /\ of[l] \in Emoji THEN 1 ELSE 0
ReactionsKept == \A l \in Loops : reactions[l] = queued[l] + Waiting(l) + InHand(l)

(* A homeserver without a media repository is detected once and then       *)
(* skipped: only uploads already under way when the first one was refused  *)
(* can be refused as well (avatarcache.go:49-51).  Without                 *)
(* matrix_media_url, that is; with it the refusals go on.                  *)
RefusalsBounded == refusals <= Cardinality(Actors)

(* Avatars "update themselves when someone changes their avatar"           *)
(* (profile.go:18-21): if profile events of a user go on being attributed, *)
(* by whichever login, the ghost comes to have the user's avatar and keeps *)
(* it, although lookups, and loops, that found an older one may finish     *)
(* late.                                                                   *)
Attributed(u) == \E l \in Loops : pc[l] = "check" /\ of[l] = u
GhostsSettle ==
    \A u \in Users : []<>(mediaServed /\ Attributed(u)) => <>[](ghost[u] = avatar[u])
=============================================================================
