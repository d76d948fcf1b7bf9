--------------------------- MODULE StartupProofs ---------------------------
(***************************************************************************)
(* Proofs about Startup, for any set of portals, any number of builds and  *)
(* of kills.                                                               *)
(*                                                                         *)
(* The script is restartable because each file is proof of the steps       *)
(* before it (FilesInOrder).  The icon is where it should be because a     *)
(* version stored as current is a promise about every portal's bridge info *)
(* (PromiseKept), and because an image counts as uploaded only when its    *)
(* entry says so (Recorded).                                               *)
(***************************************************************************)
EXTENDS Startup, TLAPS

FilesInOrder ==
    /\ registration # 0 => domainSet
    /\ tokens # 0 => registration # 0
    /\ installed # 0 => registration # 0
    /\ pc = "register" => registration = 0
    /\ pc = "tokens" => registration # 0
    /\ pc \in {"run"} \cup Running => registration # 0 /\ (puppet \/ secret)
    /\ pc \in Running => tokens = registration /\ installed = registration

FilesInv == TypeOK /\ unrecorded <= kills /\ FilesInOrder

LEMMA FilesInit == Init => FilesInv
  <1> SUFFICES ASSUME Init PROVE FilesInv
    OBVIOUS
  <1>1. /\ image \in Images /\ entry \in [image : 0 .. MaxImages, uri : Nat]
        /\ uploaded \in [Images -> Nat] /\ shows \in [Portals -> Nat]
    BY BoundsAssumption DEF Init, Images
  <1>2. unrecorded \in 0 .. MaxKills /\ kills \in 0 .. MaxKills
    BY BoundsAssumption DEF Init
  <1>3. /\ domainSet \in BOOLEAN /\ secret \in BOOLEAN /\ puppet \in BOOLEAN
        /\ torn \in BOOLEAN /\ stale \in BOOLEAN
    BY Zenon DEF Init
  <1> QED
    BY <1>1, <1>2, <1>3
       DEF Init, FilesInv, TypeOK, FilesInOrder, Scripted, Running, Starting

LEMMA FilesStep == ASSUME FilesInv, [Next]_vars PROVE FilesInv'
  <1> USE BoundsAssumption
      DEF FilesInv, TypeOK, FilesInOrder, Scripted, Running, Starting, Images, files, outside, icon
  <1>1. CASE Start
    BY <1>1 DEF Start
  <1>2. CASE WriteConfig
    BY <1>2 DEF WriteConfig
  <1>3. CASE PatchConfig
    BY <1>3 DEF PatchConfig
  <1>4. CASE CheckFiles
    BY <1>4 DEF CheckFiles, EntersStep2, NeedsRegistration, NeedsPuppet, WantsPuppet
  <1>5. CASE GenerateRegistration
    BY <1>5 DEF GenerateRegistration
  <1>6. CASE SaveTokens
    BY <1>6 DEF SaveTokens, NeedsPuppet, WantsPuppet
  <1>7. CASE GeneratePuppet
    BY <1>7 DEF GeneratePuppet
  <1>8. CASE Run
    BY <1>8 DEF Run, TokensAccepted
  <1>9. CASE IconStored
    BY <1>9 DEF IconStored
  <1>10. CASE UploadFails
    BY <1>10 DEF UploadFails
  <1>11. CASE UploadOk
    BY <1>11 DEF UploadOk
  <1>12. CASE StoreIcon
    BY <1>12 DEF StoreIcon
  <1>13. CASE Invalidate
    BY <1>13 DEF Invalidate, Invalidated
  <1>14. CASE StoreVersion
    BY <1>14 DEF StoreVersion
  <1>15. CASE Stop
    BY <1>15 DEF Stop
  <1>16. CASE Kill
    BY <1>16 DEF Kill
  <1>17. CASE EditConfig
    BY <1>17 DEF EditConfig
  <1>18. CASE PasteSecret
    BY <1>18 DEF PasteSecret
  <1>19. CASE InstallRegistration
    BY <1>19 DEF InstallRegistration
  <1>20. CASE Upgrade
    BY <1>20 DEF Upgrade
  <1>21. ASSUME NEW p \in Portals, Resend(p) PROVE FilesInv'
    BY <1>21 DEF Resend
  <1>22. ASSUME NEW p \in Portals, NewPortal(p) PROVE FilesInv'
    BY <1>22 DEF NewPortal
  <1>23. CASE UNCHANGED vars
    BY <1>23 DEF vars
  <1> QED
    BY <1>1, <1>2, <1>3, <1>4, <1>5, <1>6, <1>7, <1>8, <1>9, <1>10, <1>11, <1>12,
       <1>13, <1>14, <1>15, <1>16, <1>17, <1>18, <1>19, <1>20, <1>21, <1>22, <1>23
       DEF Next, Entrypoint, Bridge, Operator

(* Every variable keeps its type, and the volume never comes to hold a     *)
(* second registration.                                                    *)
THEOREM StartupTypeCorrect == Spec => []TypeOK
  <1>1. FilesInv => TypeOK
    BY DEF FilesInv
  <1> QED
    BY FilesInit, FilesStep, <1>1, PTL DEF Spec

(* A bridge that runs is set up, on tokens the homeserver accepts for as   *)
(* long as it runs, wherever earlier starts were interrupted.              *)
THEOREM RunsSetUp == Spec => []RunsComplete
  <1>1. FilesInv => RunsComplete
    BY DEF FilesInv, TypeOK, FilesInOrder, RunsComplete
  <1> QED
    BY FilesInit, FilesStep, <1>1, PTL DEF Spec

-----------------------------------------------------------------------------
IconInMemory == pc \in {"invalidate", "resend", "up"} => networkIcon = entry.uri

PromiseKept ==
    infoVersion = "current" /\ ~stale /\ pc # "invalidate" =>
        \A p \in bridged : shows[p] = entry.uri

IconInv == IconInMemory /\ (pc = "up" => infoVersion = "current") /\ PromiseKept

LEMMA IconInit == Init => IconInv
  BY DEF Init, IconInv, IconInMemory, PromiseKept

LEMMA IconStep == ASSUME FilesInv, IconInv, [Next]_vars PROVE IconInv'
  <1> USE DEF FilesInv, TypeOK, IconInv, IconInMemory, PromiseKept, files, outside, icon
  <1>1. CASE Start
    BY <1>1 DEF Start
  <1>2. CASE WriteConfig
    BY <1>2 DEF WriteConfig
  <1>3. CASE PatchConfig
    BY <1>3 DEF PatchConfig
  <1>4. CASE CheckFiles
    BY <1>4 DEF CheckFiles, EntersStep2, NeedsRegistration, NeedsPuppet, WantsPuppet
  <1>5. CASE GenerateRegistration
    BY <1>5 DEF GenerateRegistration
  <1>6. CASE SaveTokens
    BY <1>6 DEF SaveTokens
  <1>7. CASE GeneratePuppet
    BY <1>7 DEF GeneratePuppet
  <1>8. CASE Run
    BY <1>8 DEF Run, TokensAccepted
  <1>9. CASE IconStored
    BY <1>9 DEF IconStored
  <1>10. CASE UploadFails
    BY <1>10 DEF UploadFails
  <1>11. CASE UploadOk
    BY <1>11 DEF UploadOk
  <1>12. CASE StoreIcon
    BY <1>12 DEF StoreIcon
  <1>13. CASE Invalidate
    BY <1>13 DEF Invalidate, Invalidated
  <1>14. CASE StoreVersion
    BY <1>14 DEF StoreVersion, UpToDate
  <1>15. CASE Stop
    BY <1>15 DEF Stop
  <1>16. CASE Kill
    BY <1>16 DEF Kill
  <1>17. CASE EditConfig
    BY <1>17 DEF EditConfig
  <1>18. CASE PasteSecret
    BY <1>18 DEF PasteSecret
  <1>19. CASE InstallRegistration
    BY <1>19 DEF InstallRegistration
  <1>20. CASE Upgrade
    BY <1>20 DEF Upgrade
  <1>21. ASSUME NEW p \in Portals, Resend(p) PROVE IconInv'
    BY <1>21 DEF Resend
  <1>22. ASSUME NEW p \in Portals, NewPortal(p) PROVE IconInv'
    BY <1>22 DEF NewPortal
  <1>23. CASE UNCHANGED vars
    BY <1>23 DEF vars
  <1> QED
    BY <1>1, <1>2, <1>3, <1>4, <1>5, <1>6, <1>7, <1>8, <1>9, <1>10, <1>11, <1>12,
       <1>13, <1>14, <1>15, <1>16, <1>17, <1>18, <1>19, <1>20, <1>21, <1>22, <1>23
       DEF Next, Entrypoint, Bridge, Operator

(* Each portal of a bridge that is up shows the icon of the moment, unless *)
(* a start was killed between storing a new icon and invalidating the      *)
(* version (networkicon.go:63-68).                                         *)
THEOREM IconsAreCurrent == Spec => []IconsCurrent
  <1>1. FilesInv /\ IconInv => IconsCurrent
    BY DEF IconInv, IconInMemory, PromiseKept, IconsCurrent, UpToDate
  <1>2. FilesInv /\ IconInv /\ [Next]_vars => (FilesInv /\ IconInv)'
    BY FilesStep, IconStep
  <1>3. Init => FilesInv /\ IconInv
    BY FilesInit, IconInit
  <1> QED
    BY <1>1, <1>2, <1>3, PTL DEF Spec

-----------------------------------------------------------------------------
(* An image is newer than the recorded one until its upload is recorded.   *)
Recorded ==
    /\ entry.image <= image
    /\ entry.image # 0 => entry.uri # 0
    /\ pc = "store" => entry.image # image /\ fresh # 0

UploadsCounted ==
    \A i \in Images :
        /\ uploaded[i] <= 1 + unrecorded
        /\ i > entry.image /\ ~(pc = "store" /\ i = image) => uploaded[i] <= unrecorded

UploadInv == Recorded /\ UploadsCounted

LEMMA UploadInit == Init => UploadInv
  BY BoundsAssumption DEF Init, UploadInv, Recorded, UploadsCounted, Images

LEMMA UploadStep == ASSUME FilesInv, UploadInv, [Next]_vars PROVE UploadInv'
  <1> USE BoundsAssumption
      DEF FilesInv, TypeOK, UploadInv, Recorded, UploadsCounted, Images, files, outside, icon
  <1>1. CASE Start
    BY <1>1 DEF Start
  <1>2. CASE WriteConfig
    BY <1>2 DEF WriteConfig
  <1>3. CASE PatchConfig
    BY <1>3 DEF PatchConfig
  <1>4. CASE CheckFiles
    BY <1>4 DEF CheckFiles, EntersStep2, NeedsRegistration, NeedsPuppet, WantsPuppet
  <1>5. CASE GenerateRegistration
    BY <1>5 DEF GenerateRegistration
  <1>6. CASE SaveTokens
    BY <1>6 DEF SaveTokens
  <1>7. CASE GeneratePuppet
    BY <1>7 DEF GeneratePuppet
  <1>8. CASE Run
    BY <1>8 DEF Run, TokensAccepted
  <1>9. CASE IconStored
    BY <1>9 DEF IconStored
  <1>10. CASE UploadFails
    BY <1>10 DEF UploadFails
  <1>11. CASE UploadOk
    BY <1>11 DEF UploadOk, Stored
  <1>12. CASE StoreIcon
    BY <1>12 DEF StoreIcon
  <1>13. CASE Invalidate
    BY <1>13 DEF Invalidate, Invalidated
  <1>14. CASE StoreVersion
    BY <1>14 DEF StoreVersion
  <1>15. CASE Stop
    BY <1>15 DEF Stop
  <1>16. CASE Kill
    BY <1>16 DEF Kill
  <1>17. CASE EditConfig
    BY <1>17 DEF EditConfig
  <1>18. CASE PasteSecret
    BY <1>18 DEF PasteSecret
  <1>19. CASE InstallRegistration
    BY <1>19 DEF InstallRegistration
  <1>20. CASE Upgrade
    BY <1>20 DEF Upgrade
  <1>21. ASSUME NEW p \in Portals, Resend(p) PROVE UploadInv'
    BY <1>21 DEF Resend
  <1>22. ASSUME NEW p \in Portals, NewPortal(p) PROVE UploadInv'
    BY <1>22 DEF NewPortal
  <1>23. CASE UNCHANGED vars
    BY <1>23 DEF vars
  <1> QED
    BY <1>1, <1>2, <1>3, <1>4, <1>5, <1>6, <1>7, <1>8, <1>9, <1>10, <1>11, <1>12,
       <1>13, <1>14, <1>15, <1>16, <1>17, <1>18, <1>19, <1>20, <1>21, <1>22, <1>23
       DEF Next, Entrypoint, Bridge, Operator

(* Each image is uploaded once, but for uploads that no start lived to     *)
(* record (networkicon.go:25).                                             *)
THEOREM ImagesUploadedOnce == Spec => []UploadedOnce
  <1>1. FilesInv /\ UploadInv => UploadedOnce
    BY DEF UploadInv, UploadsCounted, UploadedOnce
  <1>2. FilesInv /\ UploadInv /\ [Next]_vars => (FilesInv /\ UploadInv)'
    BY FilesStep, UploadStep
  <1>3. Init => FilesInv /\ UploadInv
    BY FilesInit, UploadInit
  <1> QED
    BY <1>1, <1>2, <1>3, PTL DEF Spec
=============================================================================
