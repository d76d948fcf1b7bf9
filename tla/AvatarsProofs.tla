--------------------------- MODULE AvatarsProofs ---------------------------
(***************************************************************************)
(* Proofs about Avatars, for any users and emoji and any finite number of  *)
(* lookups and of logins with their sync loops.                            *)
(*                                                                         *)
(* Both bounds come from one argument: what may still be uploaded is in    *)
(* the hands of the actors that have missed the cache, and nobody joins    *)
(* them once the cache, or the latch, has been set.  What has happened     *)
(* plus what they may still do never exceeds the number of actors, or that *)
(* of the loops where the image is an emoji, which only loops take up.     *)
(***************************************************************************)
EXTENDS Avatars, FiniteSetTheorems, FunctionTheorems, TLAPS

Placed ==
    /\ \A a \in Lookups : of[a] \in Users
    /\ \A a \in Actors : pc[a] \in {"check", "upload", "update"} => found[a] # 0
    /\ \A l \in Loops : pc[l] \in {"idle", "check", "upload", "update"}
    /\ ~mediaBroken => warnings = 0

TypeInv == TypeOK /\ Placed

LEMMA TypeInit == Init => TypeInv
  <1> SUFFICES ASSUME Init PROVE TypeInv
    OBVIOUS
  <1> USE UsersAssumption, ActorsAssumption, BoundsAssumption
  <1>1. /\ avatar \in [Users -> Avatars]
        /\ inbox \in [Loops -> Seq(Images)] /\ \A l \in Loops : Len(inbox[l]) <= MaxInbox
        /\ uploaded \in [Images -> Nat] /\ uploads \subseteq Images
    BY DEF Init, Avatars
  <1>2. /\ pc \in [Actors -> Places] /\ of \in [Actors -> Pictured]
        /\ found \in [Actors -> 0 .. MaxAvatars]
    BY DEF Init, Places, Pictured
  <1>3. mediaServed \in BOOLEAN /\ mediaBroken \in BOOLEAN
    BY Zenon DEF Init
  <1>4. /\ avatar \in [Users -> Avatars] /\ ghost \in [Users -> 0 .. MaxAvatars]
        /\ byUser \in [Users -> 0 .. MaxAvatars] /\ byUsername \in [Users -> 0 .. MaxAvatars]
        /\ about \in [Users -> 0 .. MaxAvatars] /\ aboutAge \in [Users -> {"none", "fresh", "stale"}]
        /\ queued \in [Loops -> Nat] /\ reactions \in [Loops -> 0 .. MaxReactions]
        /\ refusals \in Nat /\ warnings \in 0 .. 1
    BY DEF Init, Avatars
  <1>5. Placed
    BY DEF Init, Placed, Actors
  <1> QED
    BY <1>1, <1>2, <1>3, <1>4, <1>5 DEF TypeInv, TypeOK

(* TypeOK in three parts, of which most actions touch the last one only.   *)
InboxTyped ==
    inbox \in [Loops -> Seq(Images)] /\ \A l \in Loops : Len(inbox[l]) <= MaxInbox

ImagesTyped == uploads \subseteq Images /\ uploaded \in [Images -> Nat]

RestTyped ==
    /\ mediaServed \in BOOLEAN /\ avatar \in [Users -> Avatars]
    /\ byUser \in [Users -> 0 .. MaxAvatars] /\ byUsername \in [Users -> 0 .. MaxAvatars]
    /\ about \in [Users -> 0 .. MaxAvatars] /\ aboutAge \in [Users -> {"none", "fresh", "stale"}]
    /\ mediaBroken \in BOOLEAN
    /\ pc \in [Actors -> Places]
    /\ of \in [Actors -> Pictured] /\ found \in [Actors -> 0 .. MaxAvatars]
    /\ ghost \in [Users -> 0 .. MaxAvatars]
    /\ queued \in [Loops -> Nat] /\ reactions \in [Loops -> 0 .. MaxReactions]
    /\ refusals \in Nat /\ warnings \in 0 .. 1

LEMMA DeliverTyped ==
    ASSUME TypeInv, NEW S \in SUBSET Loops, NEW e \in Images, Deliver(S, e)
    PROVE  InboxTyped'
  <1> USE BoundsAssumption DEF TypeInv, TypeOK
  <1>1. ASSUME NEW l \in Loops
        PROVE  inbox'[l] \in Seq(Images) /\ Len(inbox'[l]) <= MaxInbox
    <2>1. CASE l \in S
      <3>1. inbox'[l] = Append(inbox[l], e) /\ Len(inbox[l]) < MaxInbox
        BY <2>1 DEF Deliver
      <3>2. inbox[l] \in Seq(Images)
        OBVIOUS
      <3> HIDE DEF Images
      <3>3. Append(inbox[l], e) \in Seq(Images) /\ Len(Append(inbox[l], e)) = Len(inbox[l]) + 1
        BY <3>2
      <3> QED
        BY <3>1, <3>2, <3>3
    <2>2. CASE l \notin S
      BY <2>2 DEF Deliver
    <2> QED
      BY <2>1, <2>2
  <1>2. inbox' = [l \in Loops |-> inbox'[l]]
    BY DEF Deliver
  <1> QED
    BY <1>1, <1>2 DEF InboxTyped

LEMMA HandlesTyped ==
    ASSUME TypeInv, NEW l \in Loops, NEW S, Handles(l, S)
    PROVE  /\ inbox[l] \in Seq(Images) /\ inbox[l] # <<>> /\ Head(inbox[l]) \in Images
           /\ InboxTyped'
  <1> USE BoundsAssumption DEF TypeInv, TypeOK
  <1>1. inbox[l] \in Seq(Images) /\ inbox[l] # <<>> /\ Len(inbox[l]) <= MaxInbox
    BY DEF Handles
  <1>2. /\ Head(inbox[l]) \in Images /\ Tail(inbox[l]) \in Seq(Images)
        /\ Len(Tail(inbox[l])) <= MaxInbox
    BY <1>1
  <1>3. inbox' = [inbox EXCEPT ![l] = Tail(inbox[l])]
    BY DEF Handles
  <1> QED
    BY <1>1, <1>2, <1>3 DEF InboxTyped

LEMMA TypeStep == ASSUME TypeInv, [Next]_vars PROVE TypeInv'
  <1> USE UsersAssumption, ActorsAssumption, BoundsAssumption
      DEF RestTyped, Placed, Places, Pictured, Avatars, Actors, GoTo, Found,
          environment, profiles, abouts, images, actors, results
  <1>a. InboxTyped /\ ImagesTyped /\ RestTyped /\ Placed
    BY DEF TypeInv, TypeOK, InboxTyped, ImagesTyped
  <1>b. InboxTyped' /\ ImagesTyped' /\ RestTyped' /\ Placed' => TypeInv'
    BY DEF TypeInv, TypeOK, InboxTyped, ImagesTyped
  <1>c. UNCHANGED inbox => InboxTyped'
    BY <1>a DEF InboxTyped
  <1>d. UNCHANGED <<uploads, uploaded>> => ImagesTyped'
    BY <1>a DEF ImagesTyped
  <1> USE <1>a, <1>b, <1>c, <1>d
  <1>1. ASSUME NEW u \in Users, Change(u) PROVE TypeInv'
    BY <1>1 DEF Change
  <1>2. ASSUME NEW S \in SUBSET Loops, NEW u \in Users, PostMessage(u, S) PROVE TypeInv'
    <2>1. <<u, avatar[u]>> \in Images
      BY DEF Images
    <2>2. InboxTyped'
      BY <1>2, <2>1, DeliverTyped DEF PostMessage
    <2> QED
      BY <1>2, <2>2 DEF PostMessage
  <1>3. ASSUME NEW u \in Users, Expire(u) PROVE TypeInv'
    BY <1>3 DEF Expire
  <1>4. ASSUME NEW S \in SUBSET Loops, NEW e \in Emoji, PostReaction(e, S) PROVE TypeInv'
    <2>1. <<e, 1>> \in Images
      BY DEF Images
    <2>2. InboxTyped'
      BY <1>4, <2>1, DeliverTyped DEF PostReaction
    <2>3. reactions' \in [Loops -> 0 .. MaxReactions]
      BY <1>4 DEF PostReaction
    <2> QED
      BY <1>4, <2>2, <2>3 DEF PostReaction
  <1>5. ASSUME NEW l \in Loops, HandleProfile(l) PROVE TypeInv'
    <2> DEFINE u == Head(inbox[l])[1]
               n == Head(inbox[l])[2]
    <2>1. u \in Users /\ n \in Avatars
      BY <1>5, HandlesTyped DEF HandleProfile, Handles, Images
    <2>2. byUsername' \in [Users -> 0 .. MaxAvatars]
      BY <1>5, <2>1 DEF HandleProfile, Put
    <2>3. InboxTyped'
      BY <1>5, HandlesTyped DEF HandleProfile
    <2>4. CASE UNCHANGED <<byUser, actors>>
      BY <1>5, <2>2, <2>3, <2>4 DEF HandleProfile
    <2>5. CASE /\ byUser' = [byUser EXCEPT ![u] = Put(@, n)]
               /\ of' = [of EXCEPT ![l] = u] /\ Found(l, n)
               /\ GoTo(l, "check")
      <3>1. byUser' \in [Users -> 0 .. MaxAvatars]
        BY <2>1, <2>5 DEF Put
      <3>2. /\ pc' \in [Actors -> Places] /\ of' \in [Actors -> Pictured]
            /\ found' \in [Actors -> 0 .. MaxAvatars]
        BY <2>1, <2>5
      <3>3. Placed'
        BY <1>5, <2>1, <2>5 DEF HandleProfile
      <3> QED
        BY <1>5, <2>2, <2>3, <3>1, <3>2, <3>3 DEF HandleProfile
    <2> QED
      BY <1>5, <2>4, <2>5 DEF HandleProfile
  <1>6. ASSUME NEW l \in Loops, HandleReaction(l) PROVE TypeInv'
    <2>1. Head(inbox[l])[1] \in Emoji /\ Head(inbox[l])[2] \in Avatars
      BY <1>6, HandlesTyped DEF HandleReaction, Handles, Images
    <2>2. InboxTyped'
      BY <1>6, HandlesTyped DEF HandleReaction
    <2>3. CASE queued' = [queued EXCEPT ![l] = @ + 1] /\ UNCHANGED actors
      BY <1>6, <2>2, <2>3 DEF HandleReaction
    <2>4. CASE /\ of' = [of EXCEPT ![l] = Head(inbox[l])[1]] /\ Found(l, Head(inbox[l])[2])
               /\ GoTo(l, "check") /\ UNCHANGED queued
      BY <1>6, <2>1, <2>2, <2>4 DEF HandleReaction
    <2> QED
      BY <1>6, <2>3, <2>4 DEF HandleReaction
  <1>7. ASSUME NEW l \in Loops, QueueReaction(l) PROVE TypeInv'
    BY <1>7 DEF QueueReaction
  <1>8. ASSUME NEW a \in Lookups, NEW u \in Users, StartLookup(a, u) PROVE TypeInv'
    BY <1>8 DEF StartLookup
  <1>9. ASSUME NEW a \in Lookups, ReadProfile(a) PROVE TypeInv'
    BY <1>9 DEF ReadProfile, ProfileOf
  <1>10. ASSUME NEW a \in Lookups, ReadAbout(a) PROVE TypeInv'
    <2>1. CASE aboutAge[of[a]] = "fresh"
      <3> DEFINE n == about[of[a]]
                 l == IF n = 0 THEN "idle" ELSE "check"
      <3>1. n \in 0 .. MaxAvatars /\ l \in Places
        OBVIOUS
      <3>2. found' = [found EXCEPT ![a] = n] /\ pc' = [pc EXCEPT ![a] = l]
        BY <1>10, <2>1 DEF ReadAbout
      <3>3. found' \in [Actors -> 0 .. MaxAvatars] /\ pc' \in [Actors -> Places]
        BY <3>1, <3>2
      <3>4. Placed'
        BY <1>10, <3>2 DEF ReadAbout
      <3> QED
        BY <1>10, <3>3, <3>4 DEF ReadAbout
    <2>2. CASE aboutAge[of[a]] # "fresh"
      BY <1>10, <2>2 DEF ReadAbout
    <2> QED
      BY <2>1, <2>2
  <1>11. ASSUME NEW a \in Lookups, FetchAbout(a) PROVE TypeInv'
    <2>1. CASE Found(a, avatar[of[a]])
      BY <1>11, <2>1 DEF FetchAbout
    <2>2. CASE Found(a, 0)
      BY <1>11, <2>2 DEF FetchAbout
    <2> QED
      BY <1>11, <2>1, <2>2 DEF FetchAbout
  <1>12. ASSUME NEW a \in Lookups, StoreAbout(a) PROVE TypeInv'
    BY <1>12 DEF StoreAbout
  <1>13. ASSUME NEW a \in Actors, CheckUpload(a) PROVE TypeInv'
    BY <1>13 DEF CheckUpload, Skipped, WithoutImage
  <1>14. ASSUME NEW a \in Actors, UploadOk(a) PROVE TypeInv'
    <2>1. Image(a) \in Images
      BY <1>14 DEF UploadOk, Image, Images
    <2>2. ImagesTyped'
      BY <1>14, <2>1 DEF UploadOk, Remembered, ImagesTyped
    <2> QED
      BY <1>14, <2>2 DEF UploadOk
  <1>15. ASSUME NEW a \in Actors, UploadFails(a) PROVE TypeInv'
    BY <1>15 DEF UploadFails, WithoutImage
  <1>16. ASSUME NEW a \in Actors, UploadUnrecognized(a) PROVE TypeInv'
    <2>1. queued' \in [Loops -> Nat]
      BY <1>16 DEF UploadUnrecognized, WithoutImage
    <2>2. CASE MatrixMediaURL
      BY <1>16, <2>1, <2>2 DEF UploadUnrecognized
    <2>3. CASE ~MatrixMediaURL
      BY <1>16, <2>1, <2>3 DEF UploadUnrecognized, First
    <2> QED
      BY <2>2, <2>3
  <1>17. ASSUME NEW a \in Actors, UpdateGhost(a) PROVE TypeInv'
    BY <1>17 DEF UpdateGhost
  <1>18. CASE UNCHANGED vars
    BY <1>18 DEF vars
  <1> QED
    BY <1>1, <1>2, <1>3, <1>4, <1>5, <1>6, <1>7, <1>8, <1>9, <1>10, <1>11, <1>12, <1>13,
       <1>14, <1>15, <1>16, <1>17, <1>18 DEF Next, Lookup, Upload

(* Every variable keeps its type, and the log says once at most that the   *)
(* homeserver serves no media.                                             *)
THEOREM AvatarsTypeCorrect == Spec => []TypeOK
  <1>1. TypeInv => TypeOK
    BY DEF TypeInv
  <1> QED
    BY TypeInit, TypeStep, <1>1, PTL DEF Spec

-----------------------------------------------------------------------------
Uploading(i) == {a \in Actors : pc[a] = "upload" /\ Image(a) = i}
InUpload     == {a \in Actors : pc[a] = "upload"}

(* Those who may upload an image.                                          *)
Claimants(i) == IF i[1] \in Emoji THEN Loops ELSE Actors

ImageInv ==
    \A i \in Images :
        /\ i \notin uploads => uploaded[i] = 0
        /\ uploaded[i] + Cardinality(Uploading(i)) <= Cardinality(Claimants(i))

LatchInv ==
    ~MatrixMediaURL =>
        /\ ~mediaBroken => refusals = 0
        /\ refusals + Cardinality(InUpload) <= Cardinality(Actors)

BoundsInv == ImageInv /\ LatchInv

LEMMA ActorsFinite ==
    /\ IsFiniteSet(Actors) /\ Cardinality(Actors) \in Nat
    /\ IsFiniteSet(Loops) /\ Cardinality(Loops) \in Nat
  BY ActorsAssumption, FS_Union, FS_CardinalityType DEF Actors

LEMMA FewerActors ==
    ASSUME NEW S \in SUBSET Actors, NEW T \in SUBSET S
    PROVE  /\ Cardinality(S) \in Nat /\ Cardinality(T) \in Nat
           /\ Cardinality(T) <= Cardinality(S) /\ Cardinality(S) <= Cardinality(Actors)
  <1>1. IsFiniteSet(S) /\ Cardinality(S) <= Cardinality(Actors)
    BY ActorsFinite, FS_Subset
  <1>2. IsFiniteSet(T) /\ Cardinality(T) <= Cardinality(S)
    BY <1>1, FS_Subset
  <1> QED
    BY <1>1, <1>2, FS_CardinalityType

LEMMA FewerClaimants ==
    ASSUME NEW i, NEW S \in SUBSET Claimants(i)
    PROVE  /\ Cardinality(Claimants(i)) \in Nat /\ Cardinality(S) \in Nat
           /\ Cardinality(S) <= Cardinality(Claimants(i))
  <1>1. IsFiniteSet(Claimants(i)) /\ Cardinality(Claimants(i)) \in Nat
    BY ActorsFinite DEF Claimants
  <1> QED
    BY <1>1, FS_Subset, FS_CardinalityType

LEMMA OneActorLess ==
    ASSUME NEW S \in SUBSET Actors, NEW a \in S
    PROVE  Cardinality(S \ {a}) = Cardinality(S) - 1
  BY ActorsFinite, FS_Subset, FS_RemoveElement

(* Steps that let nobody begin an upload and touch no cache.               *)
Quiet ==
    /\ InUpload' \subseteq InUpload
    /\ \A i \in Images : Uploading(i)' \subseteq Uploading(i)
    /\ UNCHANGED <<uploads, uploaded, mediaBroken, refusals>>

LEMMA QuietKeeps == ASSUME TypeInv, BoundsInv, Quiet PROVE BoundsInv'
  <1> USE DEF TypeInv, TypeOK, Quiet
  <1>1. ImageInv'
    <2> SUFFICES ASSUME NEW i \in Images
                 PROVE  /\ i \notin uploads => uploaded[i] = 0
                        /\ uploaded[i] + Cardinality(Uploading(i)') <= Cardinality(Claimants(i))
      BY DEF ImageInv, Images, Pictured, Avatars, Actors, Claimants
    <2>1. /\ Cardinality(Uploading(i)) \in Nat /\ Cardinality(Uploading(i)') \in Nat
          /\ Cardinality(Uploading(i)') <= Cardinality(Uploading(i))
      BY FewerActors DEF Uploading
    <2>2. Cardinality(Claimants(i)) \in Nat
      BY ActorsFinite DEF Claimants
    <2> QED
      BY <2>1, <2>2 DEF BoundsInv, ImageInv
  <1>2. LatchInv'
    <2>1. /\ Cardinality(InUpload) \in Nat /\ Cardinality(InUpload') \in Nat
          /\ Cardinality(InUpload') <= Cardinality(InUpload)
      BY FewerActors DEF InUpload
    <2> QED
      BY <2>1, ActorsFinite DEF BoundsInv, LatchInv
  <1> QED
    BY <1>1, <1>2 DEF BoundsInv

LEMMA CheckKeeps ==
    ASSUME TypeInv, BoundsInv, NEW a \in Actors, CheckUpload(a)
    PROVE  BoundsInv'
  <1> USE DEF TypeInv, TypeOK, CheckUpload, images, GoTo
  <1>1. CASE Skipped \/ Image(a) \in uploads
    <2>1. pc' \in {[pc EXCEPT ![a] = "idle"], [pc EXCEPT ![a] = "update"]}
      BY <1>1
    <2>2. Quiet
      BY <2>1 DEF Quiet, InUpload, Uploading, Image
    <2> QED
      BY <2>2, QuietKeeps
  <1>2. CASE ~Skipped /\ Image(a) \notin uploads
    <2>1. pc' = [pc EXCEPT ![a] = "upload"]
      BY <1>2
    <2>2. ImageInv'
      <3> SUFFICES ASSUME NEW i \in Images PROVE
                     /\ i \notin uploads => uploaded[i] = 0
                     /\ uploaded[i] + Cardinality(Uploading(i)') <= Cardinality(Claimants(i))
        BY DEF ImageInv, Images, Pictured, Avatars, Actors, Claimants
      <3>1. CASE i = Image(a)
        <4>1. Uploading(i)' \subseteq Claimants(i)
          BY UsersAssumption DEF Uploading, Image, Claimants, Actors, Placed
        <4>2. /\ Cardinality(Uploading(i)') \in Nat
              /\ Cardinality(Uploading(i)') <= Cardinality(Claimants(i))
          BY <4>1, FewerClaimants
        <4>3. uploaded[i] = 0 /\ i \notin uploads
          BY <1>2, <3>1 DEF BoundsInv, ImageInv
        <4> QED
          BY <4>2, <4>3
      <3>2. CASE i # Image(a)
        <4>1. Uploading(i)' = Uploading(i)
          BY <2>1, <3>2 DEF Uploading, Image
        <4> QED
          BY <4>1 DEF BoundsInv, ImageInv
      <3> QED
        BY <3>1, <3>2
    <2>3. LatchInv'
      <3> SUFFICES ASSUME ~MatrixMediaURL
                   PROVE  refusals + Cardinality(InUpload') <= Cardinality(Actors)
                          /\ (~mediaBroken => refusals = 0)
        BY DEF LatchInv, Actors
      <3>1. /\ Cardinality(InUpload') \in Nat
            /\ Cardinality(InUpload') <= Cardinality(Actors)
        <4>1. InUpload' \subseteq Actors
          BY DEF InUpload, Actors
        <4> QED
          BY <4>1, FewerActors
      <3>2. refusals = 0
        BY <1>2 DEF BoundsInv, LatchInv, Skipped
      <3> QED
        BY <3>1, <3>2, ActorsFinite
    <2> QED
      BY <2>2, <2>3 DEF BoundsInv
  <1> QED
    BY <1>1, <1>2

LEMMA UploadKeeps ==
    ASSUME TypeInv, BoundsInv, NEW a \in Actors, UploadOk(a)
    PROVE  BoundsInv'
  <1> USE DEF TypeInv, TypeOK, UploadOk, GoTo
  <1>1. pc' = [pc EXCEPT ![a] = "update"]
    OBVIOUS
  <1>2. Image(a) \in Images /\ a \in Uploading(Image(a)) /\ a \in InUpload
    BY DEF Placed, Image, Images, Avatars, Uploading, InUpload
  <1>3. /\ \A i \in Images : Uploading(i)' = Uploading(i) \ {a}
        /\ InUpload' = InUpload \ {a}
    BY <1>1 DEF Uploading, InUpload, Image
  <1>4. ImageInv'
    <2> SUFFICES ASSUME NEW i \in Images PROVE
                   /\ i \notin uploads' => uploaded'[i] = 0
                   /\ uploaded'[i] + Cardinality(Uploading(i) \ {a}) <= Cardinality(Claimants(i))
      BY <1>3 DEF ImageInv, Images, Pictured, Avatars, Actors, Claimants
    <2>0. Cardinality(Claimants(i)) \in Nat
      BY ActorsFinite DEF Claimants
    <2>1. /\ Cardinality(Uploading(i)) \in Nat
          /\ Cardinality(Uploading(i) \ {a}) <= Cardinality(Uploading(i))
          /\ Cardinality(Uploading(i) \ {a}) \in Nat
      BY FewerActors DEF Uploading
    <2>2. CASE i = Image(a)
      <3>1. Cardinality(Uploading(i) \ {a}) = Cardinality(Uploading(i)) - 1
        BY <1>2, <2>2, OneActorLess DEF Uploading
      <3>2. uploaded'[i] = uploaded[i] + 1 /\ i \in uploads'
        BY <2>2 DEF Remembered
      <3> QED
        BY <2>0, <2>1, <3>1, <3>2 DEF BoundsInv, ImageInv
    <2>3. CASE i # Image(a)
      <3>1. uploaded'[i] = uploaded[i] /\ (i \in uploads' <=> i \in uploads)
        BY <2>3 DEF Remembered
      <3> QED
        BY <2>0, <2>1, <3>1 DEF BoundsInv, ImageInv
    <2> QED
      BY <2>2, <2>3
  <1>5. LatchInv'
    <2>1. Cardinality(InUpload \ {a}) = Cardinality(InUpload) - 1 /\ Cardinality(InUpload) \in Nat
      BY <1>2, OneActorLess, FewerActors DEF InUpload
    <2> QED
      BY <1>3, <2>1, ActorsFinite DEF BoundsInv, LatchInv
  <1> QED
    BY <1>4, <1>5 DEF BoundsInv

LEMMA RefusalKeeps ==
    ASSUME TypeInv, BoundsInv, NEW a \in Actors, UploadUnrecognized(a)
    PROVE  BoundsInv'
  <1> USE DEF TypeInv, TypeOK, UploadUnrecognized, GoTo
  <1>1. pc' = [pc EXCEPT ![a] = "idle"] /\ a \in InUpload
    BY DEF InUpload
  <1>2. /\ \A i \in Images : Uploading(i)' \subseteq Uploading(i)
        /\ InUpload' = InUpload \ {a}
    BY <1>1 DEF Uploading, InUpload, Image
  <1>3. ImageInv'
    <2> SUFFICES ASSUME NEW i \in Images PROVE
                   /\ i \notin uploads => uploaded[i] = 0
                   /\ uploaded[i] + Cardinality(Uploading(i)') <= Cardinality(Claimants(i))
      BY DEF ImageInv, Images, Pictured, Avatars, Actors, Claimants
    <2>1. /\ Cardinality(Uploading(i)) \in Nat /\ Cardinality(Uploading(i)') \in Nat
          /\ Cardinality(Uploading(i)') <= Cardinality(Uploading(i))
      BY <1>2, FewerActors DEF Uploading
    <2>2. Cardinality(Claimants(i)) \in Nat
      BY ActorsFinite DEF Claimants
    <2> QED
      BY <2>1, <2>2 DEF BoundsInv, ImageInv
  <1>4. LatchInv'
    <2>1. Cardinality(InUpload \ {a}) = Cardinality(InUpload) - 1 /\ Cardinality(InUpload) \in Nat
      BY <1>1, OneActorLess, FewerActors DEF InUpload
    <2> QED
      BY <1>2, <2>1, ActorsFinite DEF BoundsInv, LatchInv
  <1> QED
    BY <1>3, <1>4 DEF BoundsInv

LEMMA BoundsStep == ASSUME TypeInv, BoundsInv, [Next]_vars PROVE BoundsInv'
  <1> USE DEF TypeInv, TypeOK, Quiet, InUpload, Uploading, Image, Actors, GoTo, Found,
              images, actors, results, abouts
  <1>1. ASSUME NEW u \in Users, NEW S \in SUBSET Loops,
               Change(u) \/ PostMessage(u, S) \/ Expire(u)
        PROVE  Quiet
    BY <1>1 DEF Change, PostMessage, Expire
  <1>2. ASSUME NEW S \in SUBSET Loops, NEW e \in Emoji, PostReaction(e, S) PROVE Quiet
    BY <1>2 DEF PostReaction
  <1>3. ASSUME NEW l \in Loops, HandleProfile(l) PROVE Quiet
    BY <1>3 DEF HandleProfile
  <1>4. ASSUME NEW l \in Loops, HandleReaction(l) PROVE Quiet
    BY <1>4 DEF HandleReaction
  <1>5. ASSUME NEW l \in Loops, QueueReaction(l) PROVE Quiet
    BY <1>5 DEF QueueReaction
  <1>6. ASSUME NEW a \in Lookups, NEW u \in Users, StartLookup(a, u) PROVE Quiet
    BY <1>6 DEF StartLookup
  <1>7. ASSUME NEW a \in Lookups, Lookup(a) PROVE Quiet
    <2>1. CASE ReadProfile(a)
      BY <2>1 DEF ReadProfile
    <2>2. CASE ReadAbout(a)
      BY <2>2 DEF ReadAbout
    <2>3. CASE FetchAbout(a)
      BY <2>3 DEF FetchAbout
    <2>4. CASE StoreAbout(a)
      BY <2>4 DEF StoreAbout
    <2> QED
      BY <1>7, <2>1, <2>2, <2>3, <2>4 DEF Lookup
  <1>8. ASSUME NEW a \in Actors, UploadFails(a) \/ UpdateGhost(a) PROVE Quiet
    BY <1>8 DEF UploadFails, UpdateGhost
  <1>9. CASE UNCHANGED vars
    <2>1. Quiet
      BY <1>9 DEF vars
    <2> QED
      BY <2>1, QuietKeeps
  <1> QED
    BY <1>1, <1>2, <1>3, <1>4, <1>5, <1>6, <1>7, <1>8, <1>9, QuietKeeps, CheckKeeps,
       UploadKeeps, RefusalKeeps DEF Next, Upload

LEMMA BoundsInit == Init => BoundsInv
  <1> SUFFICES ASSUME Init PROVE BoundsInv
    OBVIOUS
  <1>1. \A i \in Images : Uploading(i) = {}
    BY DEF Init, Uploading
  <1>2. InUpload = {}
    BY DEF Init, InUpload
  <1>3. \A i \in Images : uploaded[i] = 0 /\ i \notin uploads
    BY DEF Init
  <1>4. ImageInv
    BY <1>1, <1>3, FS_EmptySet, ActorsFinite DEF ImageInv, Claimants
  <1>5. LatchInv
    BY <1>2, FS_EmptySet, ActorsFinite DEF Init, LatchInv
  <1> QED
    BY <1>4, <1>5 DEF BoundsInv

(* No image is uploaded more often than there are goroutines, and no emoji *)
(* more often than there are logins.                                       *)
THEOREM UploadsAreBounded == Spec => []UploadsBounded
  <1>1. TypeInv /\ BoundsInv => UploadsBounded
    <2> SUFFICES ASSUME TypeInv, BoundsInv, NEW i \in Images
                 PROVE  uploaded[i] <= Cardinality(Claimants(i))
      BY DEF UploadsBounded, Claimants
    <2>1. Cardinality(Uploading(i)) \in Nat
      BY FewerActors DEF Uploading
    <2>2. Cardinality(Claimants(i)) \in Nat
      BY ActorsFinite DEF Claimants
    <2> QED
      BY <2>1, <2>2 DEF TypeInv, TypeOK, BoundsInv, ImageInv
  <1> QED
    BY TypeInit, TypeStep, BoundsInit, BoundsStep, <1>1, PTL DEF Spec

(* Where matrix_media_url is not set, a homeserver without a media         *)
(* repository refuses no more uploads than there are goroutines.           *)
THEOREM RefusalsAreBounded ==
    ASSUME ~MatrixMediaURL
    PROVE  Spec => []RefusalsBounded
  <1>1. TypeInv /\ BoundsInv => RefusalsBounded
    <2> SUFFICES ASSUME TypeInv, BoundsInv PROVE RefusalsBounded
      OBVIOUS
    <2>1. Cardinality(InUpload) \in Nat
      BY FewerActors DEF InUpload
    <2> QED
      BY <2>1, ActorsFinite DEF TypeInv, TypeOK, BoundsInv, LatchInv, RefusalsBounded
  <1> QED
    BY TypeInit, TypeStep, BoundsInit, BoundsStep, <1>1, PTL DEF Spec

-----------------------------------------------------------------------------
(* Reactions among the events of a sync response.                          *)
EmojiIn(s) == {i \in 1 .. Len(s) : s[i][1] \in Emoji}

LEMMA EmojiInFinite ==
    ASSUME NEW s \in Seq(Images)
    PROVE  IsFiniteSet(EmojiIn(s)) /\ Cardinality(EmojiIn(s)) \in Nat
  <1> HIDE DEF Images
  <1>1. IsFiniteSet(1 .. Len(s))
    BY FS_Interval
  <1>2. IsFiniteSet(EmojiIn(s))
    BY <1>1, FS_Subset DEF EmojiIn
  <1> QED
    BY <1>2, FS_CardinalityType

LEMMA WaitingAppend ==
    ASSUME NEW s \in Seq(Images), NEW e \in Images
    PROVE  /\ Cardinality(EmojiIn(s)) \in Nat
           /\ Cardinality(EmojiIn(Append(s, e))) =
                Cardinality(EmojiIn(s)) + (IF e[1] \in Emoji THEN 1 ELSE 0)
  <1>1. IsFiniteSet(EmojiIn(s)) /\ Cardinality(EmojiIn(s)) \in Nat
    BY EmojiInFinite
  <1>2. Len(s) + 1 \notin EmojiIn(s)
    BY DEF EmojiIn
  <1>3. EmojiIn(Append(s, e)) =
          IF e[1] \in Emoji THEN EmojiIn(s) \cup {Len(s) + 1} ELSE EmojiIn(s)
    <2> HIDE DEF Images
    <2>1. \A i \in 1 .. Len(s) : Append(s, e)[i] = s[i]
      OBVIOUS
    <2>2. Append(s, e)[Len(s) + 1] = e /\ Len(Append(s, e)) = Len(s) + 1
      OBVIOUS
    <2>3. 1 .. (Len(s) + 1) = (1 .. Len(s)) \cup {Len(s) + 1}
      OBVIOUS
    <2> QED
      BY <2>1, <2>2, <2>3 DEF EmojiIn
  <1>4. Cardinality(EmojiIn(s) \cup {Len(s) + 1}) = Cardinality(EmojiIn(s)) + 1
    BY <1>1, <1>2, FS_AddElement
  <1>5. CASE e[1] \in Emoji
    BY <1>1, <1>3, <1>4, <1>5
  <1>6. CASE e[1] \notin Emoji
    BY <1>1, <1>3, <1>6
  <1> QED
    BY <1>5, <1>6

LEMMA WaitingTail ==
    ASSUME NEW s \in Seq(Images), s # <<>>
    PROVE  /\ Cardinality(EmojiIn(Tail(s))) \in Nat
           /\ Cardinality(EmojiIn(s)) =
                Cardinality(EmojiIn(Tail(s))) + (IF Head(s)[1] \in Emoji THEN 1 ELSE 0)
  <1> DEFINE T == EmojiIn(Tail(s))
             Later == EmojiIn(s) \ {1}
  <1> HIDE DEF Images
  <1>1. /\ IsFiniteSet(T) /\ Cardinality(T) \in Nat
        /\ IsFiniteSet(Later) /\ Cardinality(Later) \in Nat
    <2>1. Tail(s) \in Seq(Images)
      OBVIOUS
    <2> QED
      BY <2>1, EmojiInFinite, FS_RemoveElement, FS_CardinalityType
  <1>2. Cardinality(T) = Cardinality(Later)
    <2> DEFINE f == [i \in T |-> i + 1]
    <2>1. /\ Len(Tail(s)) = Len(s) - 1 /\ Len(s) \in Nat \ {0}
          /\ \A i \in 1 .. Len(Tail(s)) : Tail(s)[i] = s[i + 1]
      OBVIOUS
    <2>2. \A i \in T : i + 1 \in Later
      BY <2>1 DEF EmojiIn
    <2>3. \A j \in Later : j - 1 \in T /\ (j - 1) + 1 = j
      BY <2>1 DEF EmojiIn
    <2>4. T \subseteq Nat
      BY <2>1 DEF EmojiIn
    <2>5. f \in Bijection(T, Later)
      <3> HIDE DEF T, Later
      <3>1. f \in [T -> Later]
        BY <2>2
      <3>2. \A i, j \in T : f[i] = f[j] => i = j
        BY <2>4
      <3>3. \A j \in Later : \E i \in T : f[i] = j
        BY <2>3
      <3> HIDE DEF f
      <3> QED
        BY <3>1, <3>2, <3>3, Fun_IsBij
    <2> QED
      BY <2>5, <1>1, FS_Bijection DEF ExistsBijection
  <1>3. CASE Head(s)[1] \in Emoji
    <2>1. 1 \in EmojiIn(s)
      BY <1>3 DEF EmojiIn
    <2>2. IsFiniteSet(EmojiIn(s)) /\ Cardinality(EmojiIn(s)) \in Nat
      BY EmojiInFinite
    <2>3. Cardinality(Later) = Cardinality(EmojiIn(s)) - 1
      BY <2>1, <2>2, FS_RemoveElement
    <2> QED
      BY <1>1, <1>2, <1>3, <2>2, <2>3
  <1>4. CASE Head(s)[1] \notin Emoji
    <2>1. Later = EmojiIn(s)
      BY <1>4 DEF EmojiIn
    <2>2. Cardinality(EmojiIn(s)) = Cardinality(EmojiIn(Tail(s)))
      BY <1>2, <2>1
    <2>3. Cardinality(EmojiIn(Tail(s))) \in Nat
      BY <1>1
    <2> HIDE DEF T, Later
    <2> QED
      BY <1>4, <2>2, <2>3
  <1> QED
    BY <1>3, <1>4

KeptFor(l) == reactions[l] = queued[l] + Waiting(l) + InHand(l)

LEMMA WaitingIs ==
    ASSUME TypeInv, NEW l \in Loops
    PROVE  /\ Waiting(l) = Cardinality(EmojiIn(inbox[l])) /\ Waiting(l) \in Nat
           /\ InHand(l) \in {0, 1}
  <1>1. inbox[l] \in Seq(Images)
    BY DEF TypeInv, TypeOK
  <1> QED
    BY <1>1, EmojiInFinite DEF Waiting, EmojiIn, InHand

LEMMA ReactionsInit == Init => ReactionsKept
  <1> SUFFICES ASSUME Init, NEW l \in Loops PROVE KeptFor(l)
    BY DEF ReactionsKept, KeptFor
  <1>1. Waiting(l) = 0
    <2>1. {i \in 1 .. Len(inbox[l]) : inbox[l][i][1] \in Emoji} = {}
      BY DEF Init
    <2> QED
      BY <2>1, FS_EmptySet DEF Waiting
  <1>2. InHand(l) = 0
    BY DEF Init, InHand, Actors
  <1> QED
    BY <1>1, <1>2 DEF Init, KeptFor

(* Steps that leave alone the reactions of a loop, and what it has in hand. *)
LEMMA NoReaction ==
    ASSUME ReactionsKept, NEW l \in Loops, InHand(l)' = InHand(l),
           reactions'[l] = reactions[l], queued'[l] = queued[l], inbox'[l] = inbox[l]
    PROVE  KeptFor(l)'
  BY DEF ReactionsKept, KeptFor, Waiting

LEMMA SameInHand ==
    ASSUME NEW l \in Loops, pc'[l] = pc[l], of'[l] = of[l]
    PROVE  InHand(l)' = InHand(l)
  BY DEF InHand

(* An actor ends an upload without an image.                               *)
LEMMA GivesUp ==
    ASSUME TypeInv, ReactionsKept, NEW a \in Actors, pc[a] # "idle",
           pc' = [pc EXCEPT ![a] = "idle"], queued' = WithoutImage(a),
           UNCHANGED <<reactions, inbox, of>>
    PROVE  ReactionsKept'
  <1> USE DEF TypeInv, TypeOK
  <1> SUFFICES ASSUME NEW l \in Loops PROVE KeptFor(l)'
    BY DEF ReactionsKept, KeptFor
  <1>1. Waiting(l)' = Waiting(l) /\ Waiting(l) \in Nat
    BY WaitingIs DEF Waiting
  <1>2. CASE a = l /\ of[l] \in Emoji
    <2>1. InHand(l) = 1 /\ InHand(l)' = 0 /\ queued'[l] = queued[l] + 1
      BY <1>2 DEF InHand, WithoutImage
    <2> QED
      BY <1>1, <2>1 DEF ReactionsKept, KeptFor
  <1>3. CASE ~(a = l /\ of[l] \in Emoji)
    <2>1. queued'[l] = queued[l]
      <3>1. CASE of[a] \in Emoji
        <4>1. a \in Loops /\ a # l
          BY <1>3, <3>1, UsersAssumption DEF Placed, Actors
        <4> QED
          BY <3>1, <4>1 DEF WithoutImage
      <3>2. CASE of[a] \notin Emoji
        BY <3>2 DEF WithoutImage
      <3> QED
        BY <3>1, <3>2
    <2>2. InHand(l)' = InHand(l)
      BY <1>3 DEF InHand, Actors
    <2> QED
      BY <2>1, <2>2, NoReaction
  <1> QED
    BY <1>2, <1>3

LEMMA DeliverKeeps ==
    ASSUME TypeInv, NEW S \in SUBSET Loops, NEW e \in Images, Deliver(S, e), NEW l \in Loops
    PROVE  Waiting(l)' = Waiting(l) + (IF l \in S /\ e[1] \in Emoji THEN 1 ELSE 0)
  <1>1. inbox[l] \in Seq(Images)
    BY DEF TypeInv, TypeOK
  <1>2. Waiting(l) = Cardinality(EmojiIn(inbox[l])) /\ Waiting(l) \in Nat
    BY WaitingIs
  <1>3. Waiting(l)' = Cardinality(EmojiIn(inbox'[l]))
    BY DEF Waiting, EmojiIn
  <1>4. inbox'[l] = IF l \in S THEN Append(inbox[l], e) ELSE inbox[l]
    BY DEF Deliver
  <1> QED
    BY <1>1, <1>2, <1>3, <1>4, WaitingAppend

LEMMA HandlesKeeps ==
    ASSUME TypeInv, NEW l \in Loops, NEW S, Handles(l, S)
    PROVE  /\ Waiting(l)' \in Nat
           /\ Waiting(l) = Waiting(l)' + (IF Head(inbox[l])[1] \in Emoji THEN 1 ELSE 0)
           /\ \A m \in Loops \ {l} : inbox'[m] = inbox[m]
  <1>1. inbox[l] \in Seq(Images) /\ inbox[l] # <<>>
    BY HandlesTyped
  <1>2. inbox'[l] = Tail(inbox[l]) /\ \A m \in Loops \ {l} : inbox'[m] = inbox[m]
    BY DEF Handles, TypeInv, TypeOK
  <1>3. Waiting(l) = Cardinality(EmojiIn(inbox[l])) /\ Waiting(l)' = Cardinality(EmojiIn(inbox'[l]))
    BY DEF Waiting, EmojiIn
  <1> QED
    BY <1>1, <1>2, <1>3, WaitingTail

LEMMA HandleReactionKeeps ==
    ASSUME TypeInv, ReactionsKept, NEW l \in Loops, HandleReaction(l)
    PROVE  ReactionsKept'
  <1> USE DEF TypeInv, TypeOK
  <1>1. /\ Waiting(l)' \in Nat /\ Waiting(l) = Waiting(l)' + 1
        /\ \A m \in Loops \ {l} : inbox'[m] = inbox[m]
    BY HandlesKeeps DEF HandleReaction, Handles
  <1>2. InHand(l) = 0
    BY DEF HandleReaction, Handles, InHand
  <1>3. reactions[l] = queued[l] + Waiting(l)' + 1 /\ queued[l] \in Nat
    BY <1>1, <1>2 DEF ReactionsKept, KeptFor
  <1>4. KeptFor(l)'
    <2>1. CASE queued' = [queued EXCEPT ![l] = @ + 1] /\ UNCHANGED actors
      <3>1. InHand(l)' = 0 /\ reactions' = reactions /\ queued'[l] = queued[l] + 1
        BY <2>1, <1>2 DEF HandleReaction, InHand, actors
      <3> QED
        BY <1>1, <1>3, <3>1 DEF KeptFor
    <2>2. CASE /\ of' = [of EXCEPT ![l] = Head(inbox[l])[1]] /\ GoTo(l, "check")
               /\ UNCHANGED queued
      <3>1. InHand(l)' = 1 /\ reactions' = reactions
        BY <2>2 DEF HandleReaction, Handles, InHand, Actors, GoTo
      <3> QED
        BY <1>1, <1>3, <2>2, <3>1 DEF KeptFor
    <2> QED
      BY <2>1, <2>2 DEF HandleReaction
  <1>5. ASSUME NEW m \in Loops, m # l PROVE KeptFor(m)'
    <2>1. pc'[m] = pc[m] /\ of'[m] = of[m] /\ queued'[m] = queued[m] /\ reactions'[m] = reactions[m]
      BY <1>5 DEF HandleReaction, actors, GoTo, Actors
    <2> QED
      BY <1>1, <1>5, <2>1, NoReaction, SameInHand
  <1> QED
    BY <1>4, <1>5 DEF ReactionsKept, KeptFor

LEMMA ReactionsStep == ASSUME TypeInv, ReactionsKept, [Next]_vars PROVE ReactionsKept'
  <1> USE DEF TypeInv, TypeOK, GoTo, Found
  <1>1. \A l \in Loops : InHand(l) \in {0, 1} /\ Waiting(l) \in Nat
    BY WaitingIs
  <1>2. ASSUME \A l \in Loops : KeptFor(l)' PROVE ReactionsKept'
    BY <1>2 DEF ReactionsKept, KeptFor
  <1>3. ASSUME NEW u \in Users, Change(u) \/ Expire(u) PROVE ReactionsKept'
    BY <1>2, <1>3, NoReaction, SameInHand DEF Change, Expire, actors, results
  <1>4. ASSUME NEW S \in SUBSET Loops, NEW u \in Users, PostMessage(u, S) PROVE ReactionsKept'
    <2>1. <<u, avatar[u]>> \in Images /\ u \notin Emoji
      BY UsersAssumption DEF Images, Pictured
    <2> SUFFICES ASSUME NEW l \in Loops PROVE KeptFor(l)'
      BY <1>2
    <2>2. Waiting(l)' = Waiting(l)
      <3>1. PICK e \in Images : Deliver(S, e) /\ e[1] \notin Emoji
        BY <1>4, <2>1 DEF PostMessage
      <3>2. Waiting(l) \in Nat
        BY <1>1
      <3> HIDE DEF TypeInv, TypeOK
      <3> QED
        BY <3>1, <3>2, DeliverKeeps
    <2>3. InHand(l)' = InHand(l)
      BY <1>4, SameInHand DEF PostMessage, actors
    <2> QED
      BY <1>4, <2>2, <2>3 DEF PostMessage, ReactionsKept, KeptFor, results
  <1>5. ASSUME NEW S \in SUBSET Loops, NEW e \in Emoji, PostReaction(e, S) PROVE ReactionsKept'
    <2>1. <<e, 1>> \in Images
      BY BoundsAssumption DEF Images, Pictured, Avatars
    <2> SUFFICES ASSUME NEW l \in Loops PROVE KeptFor(l)'
      BY <1>2
    <2>2. Waiting(l)' = Waiting(l) + (IF l \in S THEN 1 ELSE 0)
      BY <1>5, <2>1, DeliverKeeps DEF PostReaction
    <2>3. /\ queued'[l] = queued[l] /\ queued[l] \in Nat
          /\ reactions'[l] = reactions[l] + (IF l \in S THEN 1 ELSE 0)
      BY <1>5 DEF PostReaction, results
    <2>4. InHand(l)' = InHand(l)
      BY <1>5, SameInHand DEF PostReaction, actors
    <2>5. reactions[l] = queued[l] + Waiting(l) + InHand(l)
      BY DEF ReactionsKept
    <2> HIDE DEF TypeInv, TypeOK
    <2>6. CASE l \in S
      BY <1>1, <2>2, <2>3, <2>4, <2>5, <2>6 DEF KeptFor
    <2>7. CASE l \notin S
      BY <1>1, <2>2, <2>3, <2>4, <2>5, <2>7 DEF KeptFor
    <2> QED
      BY <2>6, <2>7
  <1>6. ASSUME NEW l \in Loops, HandleProfile(l) PROVE ReactionsKept'
    <2> SUFFICES ASSUME NEW m \in Loops PROVE KeptFor(m)'
      BY <1>2
    <2>1. Head(inbox[l])[1] \notin Emoji
      BY <1>6, UsersAssumption DEF HandleProfile, Handles
    <2>2. Waiting(m)' = Waiting(m)
      <3>1. CASE m = l
        BY <1>6, <2>1, <3>1, HandlesKeeps DEF HandleProfile
      <3>2. CASE m # l
        BY <1>6, <3>2, HandlesKeeps DEF HandleProfile, Waiting
      <3> QED
        BY <3>1, <3>2
    <2>3. InHand(m)' = InHand(m)
      BY <1>6, UsersAssumption DEF HandleProfile, Handles, InHand, actors, Actors
    <2> QED
      BY <1>6, <2>2, <2>3 DEF HandleProfile, ReactionsKept, KeptFor, results
  <1>7. ASSUME NEW l \in Loops, HandleReaction(l) PROVE ReactionsKept'
    BY <1>7, HandleReactionKeeps
  <1>8. ASSUME NEW l \in Loops, QueueReaction(l) PROVE ReactionsKept'
    <2> SUFFICES ASSUME NEW m \in Loops PROVE KeptFor(m)'
      BY <1>2
    <2>1. CASE m = l
      <3>1. InHand(m) = 1 /\ InHand(m)' = 0 /\ queued'[m] = queued[m] + 1 /\ queued[m] \in Nat
        BY <1>8, <2>1 DEF QueueReaction, InHand, Actors
      <3>2. Waiting(m)' = Waiting(m) /\ reactions'[m] = reactions[m]
        BY <1>8 DEF QueueReaction, Waiting
      <3> QED
        BY <1>1, <3>1, <3>2 DEF ReactionsKept, KeptFor
    <2>2. CASE m # l
      BY <1>8, <2>2, NoReaction, SameInHand DEF QueueReaction, Actors
    <2> QED
      BY <2>1, <2>2
  <1>9. ASSUME NEW a \in Lookups, Lookup(a) \/ \E u \in Users : StartLookup(a, u)
        PROVE  ReactionsKept'
    <2> SUFFICES ASSUME NEW l \in Loops PROVE KeptFor(l)'
      BY <1>2
    <2>1. a # l /\ a \in Actors
      BY ActorsAssumption DEF Actors
    <2>2. pc'[l] = pc[l] /\ of'[l] = of[l]
      BY <1>9, <2>1
         DEF Lookup, StartLookup, ReadProfile, ReadAbout, FetchAbout, StoreAbout, Actors
    <2>3. UNCHANGED <<reactions, queued, inbox>>
      BY <1>9
         DEF Lookup, StartLookup, ReadProfile, ReadAbout, FetchAbout, StoreAbout, results
    <2> QED
      BY <2>2, <2>3, NoReaction, SameInHand
  <1>10. ASSUME NEW a \in Actors, CheckUpload(a) PROVE ReactionsKept'
    <2>1. CASE Skipped
      <3>1. pc' = [pc EXCEPT ![a] = "idle"] /\ queued' = WithoutImage(a)
        BY <1>10, <2>1 DEF CheckUpload
      <3> QED
        BY <1>10, <3>1, GivesUp DEF CheckUpload
    <2>2. CASE ~Skipped
      <3>1. pc' \in {[pc EXCEPT ![a] = "update"], [pc EXCEPT ![a] = "upload"]}
        BY <1>10, <2>2 DEF CheckUpload
      <3>2. \A l \in Loops : InHand(l)' = InHand(l)
        BY <1>10, <3>1 DEF CheckUpload, InHand, Actors
      <3> QED
        BY <1>2, <1>10, <2>2, <3>2, NoReaction DEF CheckUpload
    <2> QED
      BY <2>1, <2>2
  <1>11. ASSUME NEW a \in Actors, UploadOk(a) PROVE ReactionsKept'
    <2>1. \A l \in Loops : InHand(l)' = InHand(l)
      BY <1>11 DEF UploadOk, InHand, Actors
    <2> QED
      BY <1>2, <1>11, <2>1, NoReaction DEF UploadOk, results
  <1>12. ASSUME NEW a \in Actors, UploadFails(a) \/ UploadUnrecognized(a) PROVE ReactionsKept'
    BY <1>12, GivesUp DEF UploadFails, UploadUnrecognized
  <1>13. ASSUME NEW a \in Actors, UpdateGhost(a) PROVE ReactionsKept'
    <2>1. \A l \in Loops : InHand(l)' = InHand(l)
      BY <1>13, UsersAssumption DEF UpdateGhost, InHand, Actors
    <2> QED
      BY <1>2, <1>13, <2>1, NoReaction DEF UpdateGhost
  <1>14. CASE UNCHANGED vars
    BY <1>2, <1>14, NoReaction, SameInHand DEF vars, actors, results
  <1> QED
    BY <1>3, <1>4, <1>5, <1>6, <1>7, <1>8, <1>9, <1>10, <1>11, <1>12, <1>13, <1>14
       DEF Next, Upload

(* No reaction gets lost or doubled over its image.                        *)
THEOREM ReactionsAreKept == Spec => []ReactionsKept
  BY TypeInit, TypeStep, ReactionsInit, ReactionsStep, PTL DEF Spec
=============================================================================
