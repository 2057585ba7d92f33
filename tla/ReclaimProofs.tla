--------------------------- MODULE ReclaimProofs ---------------------------
(***************************************************************************)
(* ReclaimLock for any number of processes and calls.  The lock is safe    *)
(* because what a process has listed stays below the newest epoch: a link  *)
(* behind the newest epoch is seen by the listing after it, and the newest *)
(* epoch is only overtaken when its owner is dead or has released it.      *)
(***************************************************************************)
EXTENDS ReclaimLock, TLAPS

Newer(f) == \E r \in files : f < r.fence

\* A process that made no call is not in the middle of one.
FreshIdle == \A p \in Proc : calls[p] = 0 => pc[p] = "idle"

\* A path names one file.
OneFile == \A r, s \in files : r.fence = s.fence => r = s

\* The epoch a process has listed is there, or one after it.
SeenBelow == \A p \in Proc : seen[p] = 0 \/ \E r \in files : seen[p] <= r.fence

Linker(p) == p \in alive /\ pc[p] \in Verifying \union Holding

\* What a live process linked is there until it is superseded.
LinkedStays == \A p \in Proc : Linker(p) => Linked(p) \in files \/ Newer(Fence(p))

\* A process set on the epoch after q's own has been overtaken, unless q is the
\* owner it found there and still has to probe.
Displaced ==
  \A p, q \in Proc :
    /\ p \in alive
    /\ Linker(q)
    /\ seen[p] = Fence(q)
    /\ pc[p] = "link" \/ (pc[p] = "probe" /\ peer[p] # q)
    => Newer(Fence(q))

\* From the confirmation on, a live process's own epoch is the newest.
Certain(p) == p \in alive /\ pc[p] \in {"confirm"} \union Holding
OwnNewest == \A p \in Proc : Certain(p) => Newest(Linked(p))

\* Only a superseded process takes its epoch back.
Forsaken ==
  \A p \in Proc : p \in alive /\ pc[p] \in {"forsake", "disown"} => Newer(Fence(p))

\* What a live process is about to retire is older than its own epoch.
RetiresOld ==
  \A p \in Proc : p \in alive /\ pc[p] = "retire" =>
    \A e \in todo[p] : e < Fence(p)

LockParts ==
  /\ FreshIdle
  /\ OneFile
  /\ SeenBelow
  /\ LinkedStays
  /\ Displaced
  /\ OwnNewest
  /\ Forsaken
  /\ RetiresOld

LockInv == TypeOK /\ LockParts

-----------------------------------------------------------------------------
(* Types.                                                                  *)

\* What a process writes is an epoch record in its own name.
LEMMA RecordTypes ==
  ASSUME TypeOK, NEW p \in Proc
  PROVE  /\ Me(p) \in Id
         /\ Fence(p) \in Nat \ {0}
         /\ Linked(p) \in Epochs
         /\ Released(p) \in Epochs
<1>1. Me(p) \in Id
  BY DEF TypeOK, Me, Id
<1>2. Fence(p) \in Nat \ {0}
  BY DEF TypeOK, Fence
<1> QED
  BY <1>1, <1>2 DEF Linked, Released, Epochs

\* Every step keeps every variable in the set of values the code gives it.
LEMMA TypeStep == TypeOK /\ [Next]_vars => TypeOK'
<1> SUFFICES ASSUME TypeOK, [Next]_vars PROVE TypeOK'
  OBVIOUS
<1> USE ProcAssumption
        DEF TypeOK, Go, At, Me, Id, Markers, Phases, Epochs, Waiting, Verifying,
            Holding, shared, Refuse, Contend
<1>1. CASE UNCHANGED vars
  BY <1>1 DEF vars
<1>2. ASSUME NEW p \in Proc, NEW verb \in {"reserve", "advance", "clear"},
             Begin(p, verb)
      PROVE  TypeOK'
  BY <1>2 DEF Begin
<1>3. ASSUME NEW p \in Proc, Look(p) PROVE TypeOK'
  BY <1>3 DEF Look, Newest
<1>4. ASSUME NEW p \in Proc, Read(p) PROVE TypeOK'
  <2>1. peer' \in [Proc -> Proc]
    BY <1>4 DEF Read
  <2>2. attempts' = attempts
    BY <1>4 DEF Read
  <2>3. pc' \in {[pc EXCEPT ![p] = w] : w \in {"idle", "link", "probe"}}
    BY <1>4 DEF Read
  <2>4. pc[p] = "read"
    BY <1>4 DEF Read
  <2> QED
    BY <1>4, <2>1, <2>2, <2>3, <2>4 DEF Read
<1>5. ASSUME NEW p \in Proc, Probe(p) PROVE TypeOK'
  BY <1>5 DEF Probe
<1>6. ASSUME NEW p \in Proc, Link(p) PROVE TypeOK'
  <2>1. files' \subseteq Epochs
    <3>1. files' \in {files, files \union {Linked(p)}}
      BY <1>6 DEF Link
    <3> QED
      BY <3>1, RecordTypes
  <2> QED
    <3>1. pc[p] = "link"
      BY <1>6 DEF Link
    <3>2. pc' \in {[pc EXCEPT ![p] = w] : w \in {"idle", "verify", "look"}}
      BY <1>6 DEF Link
    <3>3. attempts' \in [Proc -> 0..MaxAttempts]
      BY <1>6, <3>1 DEF Link
    <3>4. \A q \in Proc : pc'[q] \in Waiting => attempts'[q] < MaxAttempts
      BY <1>6, <3>1 DEF Link
    <3> QED
      BY <1>6, <2>1, <3>1, <3>2, <3>3, <3>4 DEF Link
<1>7. ASSUME NEW p \in Proc, Verify(p) PROVE TypeOK'
  BY <1>7 DEF Verify
<1>8. ASSUME NEW p \in Proc, Forsake(p) PROVE TypeOK'
  BY <1>8 DEF Forsake
<1>9. ASSUME NEW p \in Proc, Disown(p) PROVE TypeOK'
  <2>1. files' \subseteq Epochs
    BY <1>9, RecordTypes DEF Disown, Rename
  <2> QED
    BY <1>9, <2>1 DEF Disown
<1>10. ASSUME NEW p \in Proc, Confirm(p) PROVE TypeOK'
  BY <1>10 DEF Confirm
<1>11. ASSUME NEW p \in Proc, Sweep(p) PROVE TypeOK'
  BY <1>11 DEF Sweep
<1>12. ASSUME NEW p \in Proc, Retire(p) PROVE TypeOK'
  BY <1>12 DEF Retire
<1>13. ASSUME NEW p \in Proc, Enter(p) PROVE TypeOK'
  BY <1>13 DEF Enter
<1>14. ASSUME NEW p \in Proc, Inspect(p) PROVE TypeOK'
  BY <1>14 DEF Inspect
<1>15. ASSUME NEW p \in Proc, Create(p) PROVE TypeOK'
  BY <1>15 DEF Create
<1>16. ASSUME NEW p \in Proc, Check(p) \/ Match(p) \/ Recheck(p) PROVE TypeOK'
  BY <1>16 DEF Check, Match, Recheck
<1>17. ASSUME NEW p \in Proc, Write(p) PROVE TypeOK'
  BY <1>17 DEF Write
<1>18. ASSUME NEW p \in Proc, Release(p) PROVE TypeOK'
  BY <1>18 DEF Release
<1>19. ASSUME NEW p \in Proc, Mark(p) PROVE TypeOK'
  <2>1. files' \subseteq Epochs
    BY <1>19, RecordTypes DEF Mark, Rename
  <2> QED
    BY <1>19, <2>1 DEF Mark
<1>20. ASSUME NEW p \in Proc, Crash(p) PROVE TypeOK'
  BY <1>20 DEF Crash
<1>21. CASE PowerLoss
  BY <1>21 DEF PowerLoss
<1>22. ASSUME NEW p \in Proc, Proceed(p) PROVE TypeOK'
  BY <1>22, <1>3, <1>4, <1>5, <1>6, <1>7, <1>8, <1>9, <1>10, <1>11, <1>12,
     <1>13, <1>14, <1>15, <1>16, <1>17, <1>18, <1>19
     DEF Proceed
<1>23. QED
  BY <1>1, <1>2, <1>20, <1>21, <1>22 DEF Next, Finished

-----------------------------------------------------------------------------
(* The lock.                                                               *)

\* No step takes the newest epoch away: what is retired is older than the newest,
\* a rename and a torn file keep the fence.
LEMMA Rising ==
  LockInv /\ [Next]_vars => \A r \in files : \E s \in files' : r.fence <= s.fence
<1> SUFFICES ASSUME LockInv, [Next]_vars, NEW r \in files
             PROVE  \E s \in files' : r.fence <= s.fence
  OBVIOUS
<1> USE DEF LockInv, LockParts, TypeOK, Epochs
<1>1. CASE files \subseteq files'
  BY <1>1
<1>2. ASSUME NEW p \in Proc, Rename(p) PROVE \E s \in files' : r.fence <= s.fence
  <2>1. Released(p) \in files' /\ Released(p).fence = Fence(p)
    BY <1>2 DEF Rename, Released
  <2> QED
    BY <1>2, <2>1 DEF Rename
<1>3. ASSUME NEW p \in Proc, Retire(p) PROVE \E s \in files' : r.fence <= s.fence
  <2>1. PICK e \in todo[p] : files' \in {files, {s \in files : s.fence # e}}
    BY <1>3 DEF Retire
  <2>2. Linked(p) \in files /\ e < Linked(p).fence
    BY <1>3, <2>1 DEF Retire, At, RetiresOld, OwnNewest, Certain, Holding, Newest,
                      Linked
  <2> QED
    BY <2>1, <2>2
<1>4. CASE PowerLoss
  <2>1. CASE UNCHANGED files
    BY <2>1
  <2>2. ASSUME NEW t \in files,
               files' = (files \ {t}) \union {[t EXCEPT !.token = None]}
        PROVE  \E s \in files' : r.fence <= s.fence
    <3> DEFINE torn == [t EXCEPT !.token = None]
    <3> t \in [fence : Nat \ {0}, token : Id \union {None}, released : BOOLEAN]
      OBVIOUS
    <3>1. torn \in files' /\ torn.fence = t.fence
      BY <2>2
    <3> HIDE DEF torn
    <3>2. r # t => r \in files'
      BY <2>2
    <3> QED
      BY <3>1, <3>2
  <2> QED
    BY <1>4, <2>1, <2>2 DEF PowerLoss
<1>5. QED
  <2>1. ASSUME NEW p \in Proc, Proceed(p) PROVE \E s \in files' : r.fence <= s.fence
    BY <1>1, <1>2, <1>3, <2>1
       DEF Proceed, Look, Read, Probe, Link, Verify, Forsake, Disown, Confirm,
           Sweep, Enter, Inspect, Create, Check, Match, Recheck, Write, Release,
           Mark, shared
  <2>2. ASSUME NEW p \in Proc, NEW verb \in {"reserve", "advance", "clear"},
               Crash(p) \/ Begin(p, verb)
        PROVE  files' = files
    BY <2>2 DEF Crash, Begin, shared
  <2>3. CASE UNCHANGED vars
    BY <2>3 DEF vars
  <2> QED
    BY <1>1, <1>4, <2>1, <2>2, <2>3 DEF Next, Finished

\* So a superseded epoch stays superseded.
LEMMA NewerStays ==
  ASSUME LockInv, [Next]_vars, NEW f \in Nat, Newer(f)
  PROVE  Newer(f)'
<1>1. PICK r \in files : f < r.fence
  BY DEF Newer
<1>2. PICK s \in files' : r.fence <= s.fence
  BY <1>1, Rising
<1> QED
  BY <1>1, <1>2, TypeStep DEF LockInv, TypeOK, Epochs, Newer

\* And two live processes certain of their own epoch are one.
LEMMA OneCertain ==
  ASSUME TypeOK, OneFile, OwnNewest, NEW p \in Proc, NEW q \in Proc,
         Certain(p), Certain(q)
  PROVE  p = q
<1>1. Newest(Linked(p)) /\ Newest(Linked(q))
  BY DEF OwnNewest
<1>2. Linked(p) \in Epochs /\ Linked(q) \in Epochs
  BY RecordTypes
<1>3. Linked(p).fence = Linked(q).fence
  BY <1>1, <1>2 DEF Newest, Epochs
<1>4. Linked(p) = Linked(q)
  BY <1>1, <1>3 DEF OneFile, Newest
<1>5. Linked(p).token.proc = p /\ Linked(q).token.proc = q
  BY DEF Linked, Me
<1> QED
  BY <1>4, <1>5

\* A call that only walks on, with the files, the epochs listed and the living as
\* they were, keeps the lock.
LEMMA Walking ==
  ASSUME LockInv, NEW p \in Proc,
         \/ Probe(p) \/ Forsake(p) \/ Confirm(p) \/ Sweep(p) \/ Enter(p)
         \/ Inspect(p) \/ Create(p) \/ Check(p) \/ Match(p) \/ Recheck(p)
         \/ Write(p) \/ Release(p)
  PROVE  LockParts'
<1> USE DEF LockInv, TypeOK, LockParts, FreshIdle, OneFile, SeenBelow,
            LinkedStays, Displaced, OwnNewest, Forsaken, RetiresOld, Linker,
            Certain, Newer, Newest, At, Go, Refuse, Contend, Waiting, Verifying,
            Holding, Linked, Fence, Me, shared
<1>1. CASE Probe(p)
  BY <1>1 DEF Probe
<1>2. CASE Forsake(p)
  BY <1>2 DEF Forsake
<1>3. CASE Confirm(p)
  BY <1>3 DEF Confirm
<1>4. CASE Sweep(p)
  BY <1>4 DEF Sweep
<1>5. CASE Enter(p)
  BY <1>5 DEF Enter
<1>6. CASE Inspect(p)
  BY <1>6 DEF Inspect
<1>7. CASE Create(p)
  BY <1>7 DEF Create
<1>8. CASE Check(p)
  BY <1>8 DEF Check
<1>9. CASE Match(p)
  BY <1>9 DEF Match
<1>10. CASE Recheck(p)
  BY <1>10 DEF Recheck
<1>11. CASE Write(p)
  BY <1>11 DEF Write
<1>12. CASE Release(p)
  BY <1>12 DEF Release
<1> QED
  BY <1>1, <1>2, <1>3, <1>4, <1>5, <1>6, <1>7, <1>8, <1>9, <1>10, <1>11, <1>12

\* Listing and reading: the epoch listed is the newest, an owner read there is the
\* live linker if there is one.
LEMMA Looking ==
  ASSUME LockInv, NEW p \in Proc, Look(p) \/ Read(p) \/ Verify(p)
  PROVE  LockParts'
<1> USE DEF LockInv, TypeOK, LockParts, FreshIdle, OneFile, SeenBelow,
            LinkedStays, Displaced, OwnNewest, Forsaken, RetiresOld, Linker,
            Certain, Newer, Newest, At, Go, Refuse, Waiting, Verifying,
            Holding, Linked, Fence, Me, shared
<1>1. CASE Look(p)
  <2>1. FreshIdle' /\ OneFile' /\ SeenBelow' /\ RetiresOld' /\ Forsaken'
    BY <1>1 DEF Look, Epochs
  <2>2. LinkedStays' /\ OwnNewest'
    BY <1>1 DEF Look
  <2>3. Displaced'
    BY <1>1 DEF Look
  <2> QED
    BY <2>1, <2>2, <2>3
<1>2. CASE Read(p)
  <2>1. FreshIdle' /\ OneFile' /\ SeenBelow' /\ RetiresOld' /\ Forsaken'
    BY <1>2 DEF Read
  <2>2. LinkedStays' /\ OwnNewest'
    BY <1>2 DEF Read
  <2>3. ASSUME NEW q \in Proc, Linker(q), seen[p] = Fence(q),
               pc'[p] = "link" \/ (pc'[p] = "probe" /\ peer'[p] # q)
        PROVE  Newer(Fence(q))
    <3>1. PICK r \in files : /\ r.fence = seen[p]
                             /\ r.released \/ peer' = [peer EXCEPT ![p] = r.token.proc]
      BY <1>2, <2>3 DEF Read
    <3>2. Linked(q).fence = r.fence /\ ~Linked(q).released /\ Linked(q).token.proc = q
      BY <2>3, <3>1
    <3>3. Linked(q) \in files => r = Linked(q)
      BY <3>2
    <3>4. Linked(q) \in files => FALSE
      BY <1>2, <2>3, <3>1, <3>2, <3>3 DEF Read
    <3> QED
      BY <2>3, <3>4
  <2>4. Displaced'
    BY <1>2, <2>3 DEF Read
  <2> QED
    BY <2>1, <2>2, <2>4
<1>3. CASE Verify(p)
  <2>1. FreshIdle' /\ OneFile' /\ SeenBelow' /\ RetiresOld'
    BY <1>3 DEF Verify
  <2>2. LinkedStays' /\ Displaced'
    BY <1>3 DEF Verify
  <2>3. Forsaken'
    BY <1>3 DEF Verify
  <2>4. ASSUME pc'[p] = "confirm" PROVE Newest(Linked(p))
    <3>1. PICK r \in files : Newest(r) /\ r.fence = Fence(p)
      BY <1>3, <2>4 DEF Verify
    <3>2. Linker(p)
      BY <1>3 DEF Verify
    <3>3. ~Newer(Fence(p))
      BY <3>1 DEF Epochs
    <3>4. Linked(p) \in files
      BY <3>2, <3>3
    <3> QED
      BY <3>1, <3>4
  <2>5. OwnNewest'
    BY <1>3, <2>4 DEF Verify
  <2> QED
    BY <2>1, <2>2, <2>3, <2>5
<1> QED
  BY <1>1, <1>2, <1>3

\* A link never overtakes a live process that is certain of its epoch: who is set
\* on the epoch after that one found its owner dead or its record released.
LEMMA Linking ==
  ASSUME LockInv, NEW p \in Proc, Link(p)
  PROVE  LockParts'
<1> USE DEF LockInv, TypeOK, LockParts, At, Go, Refuse, Contend, Waiting,
            Verifying, Holding
<1>1. CASE files' = files
  <2>0. Linked(p).fence = Fence(p)
    BY DEF Linked
  <2>1. pc' \in {[pc EXCEPT ![p] = w] : w \in {"idle", "look", "verify"}}
    BY DEF Link
  <2>2. pc' # [pc EXCEPT ![p] = "verify"]
    BY <1>1, <2>0 DEF Link, NoFile, Linked
  <2>3. FreshIdle' /\ OneFile' /\ SeenBelow' /\ RetiresOld'
    BY <1>1, <2>1 DEF Link, FreshIdle, OneFile, SeenBelow, RetiresOld, Fence
  <2>4. LinkedStays' /\ Displaced' /\ OwnNewest' /\ Forsaken'
    BY <1>1, <2>1, <2>2
       DEF Link, LinkedStays, Displaced, OwnNewest, Forsaken, Linker, Certain,
           Newer, Newest, Linked, Fence, Me
  <2> QED
    BY <2>3, <2>4
<1>2. CASE NoFile(Fence(p)) /\ files' = files \union {Linked(p)}
  <2>1. Linked(p) \in Epochs /\ Linked(p).fence = Fence(p) /\ Fence(p) = seen[p] + 1
    BY RecordTypes DEF Linked, Fence
  <2>2. FreshIdle' /\ RetiresOld'
    BY <1>2 DEF Link, FreshIdle, RetiresOld, Fence
  <2>3. OneFile'
    BY <1>2, <2>1 DEF OneFile, NoFile
  <2>4. SeenBelow'
    BY <1>2 DEF Link, SeenBelow
  <2>5. \A q \in Proc : Newer(Fence(q)) => Newer(Fence(q))'
    BY <1>2 DEF Link, Newer, Fence
  <2>6. LinkedStays' /\ Forsaken'
    BY <1>2, <2>5 DEF Link, LinkedStays, Forsaken, Linker, Linked, Fence, Me
  <2>7. ASSUME NEW q \in Proc, Certain(q) PROVE Newest(Linked(q))'
    <3>1. Newest(Linked(q)) /\ Linker(q)
      BY <2>7 DEF OwnNewest, Certain, Linker
    <3>2. Linked(q).fence = Fence(q) /\ Fence(q) \in Nat \ {0}
      BY RecordTypes DEF Linked
    <3>3. ~Newer(Fence(q))
      BY <3>1, <3>2 DEF Newer, Newest, Epochs
    <3>4. seen[p] # Fence(q)
      BY <3>1, <3>3 DEF Link, Displaced
    <3>5. seen[p] < Fence(q)
      BY <3>1, <3>2, <3>4 DEF SeenBelow, Newest, Epochs
    <3>6. Linked(q)' = Linked(q)
      BY DEF Link, Linked, Fence, Me
    <3> QED
      BY <1>2, <2>1, <3>1, <3>2, <3>5, <3>6 DEF Newest
  <2>8. OwnNewest'
    BY <2>7 DEF Link, OwnNewest, Certain
  <2>9. Newer(Fence(p)) \/ \A q \in Proc : seen[q] # Fence(p)
    BY <1>2, <2>1 DEF SeenBelow, NoFile, Newer, Epochs
  <2>10. Displaced'
    BY <2>5, <2>9 DEF Link, Displaced, Linker, Fence
  <2> QED
    BY <2>2, <2>3, <2>4, <2>6, <2>8, <2>10
<1> QED
  BY <1>1, <1>2 DEF Link

\* Retiring older epochs leaves the retiring process its own, the newest.
LEMMA Retiring ==
  ASSUME LockInv, NEW p \in Proc, Retire(p)
  PROVE  LockParts'
<1> USE DEF LockInv, LockParts, TypeOK
<1>1. [Next]_vars
  BY DEF Next, Proceed
<1>2. PICK e \in todo[p] :
        /\ todo' = [todo EXCEPT ![p] = @ \ {e}]
        /\ files' \in {files, {r \in files : r.fence # e}}
  BY DEF Retire
<1>3. Certain(p) /\ Newest(Linked(p)) /\ e < Fence(p)
  BY <1>2 DEF Retire, At, Certain, Holding, OwnNewest, RetiresOld
<1>4. Linked(p) \in files' /\ Linked(p).fence = Fence(p)
  BY <1>2, <1>3, RecordTypes DEF Newest, Linked
<1>5. \A q \in Proc : /\ Linked(q)' = Linked(q) /\ Fence(q)' = Fence(q)
                      /\ Fence(q) \in Nat
                      /\ Linker(q)' <=> Linker(q)
                      /\ Certain(q)' <=> Certain(q)
  BY DEF Retire, Linked, Fence, Me, Linker, Certain
<1>6. \A q \in Proc : Newer(Fence(q)) => Newer(Fence(q))'
  BY <1>1, <1>5, NewerStays DEF Retire, Newer, Fence
<1>7. FreshIdle' /\ OneFile' /\ RetiresOld'
  BY <1>2 DEF Retire, FreshIdle, OneFile, RetiresOld, Fence
<1>8. SeenBelow'
  BY <1>1, Rising, TypeStep DEF Retire, SeenBelow, Epochs
<1>9. ASSUME NEW q \in Proc, Linker(q) PROVE Linked(q) \in files' \/ Newer(Fence(q))'
  <2>1. CASE Newer(Fence(q))
    BY <1>6, <2>1
  <2>2. CASE Linked(q) \in files /\ Linked(q) \notin files'
    <3>1. Fence(q) = e
      BY <1>2, <2>2 DEF Linked
    <3>2. Fence(q) < Linked(p).fence
      BY <1>3, <1>4, <3>1
    <3> QED
      BY <1>4, <1>5, <3>2 DEF Newer
  <2> QED
    BY <1>9, <2>1, <2>2 DEF LinkedStays
<1>10. LinkedStays'
  BY <1>5, <1>9 DEF LinkedStays
<1>11. Displaced' /\ Forsaken'
  BY <1>5, <1>6 DEF Retire, Displaced, Forsaken
<1>12. OwnNewest'
  <2>1. \A q \in Proc : Certain(q) => q = p
    BY <1>3, OneCertain
  <2> QED
    BY <1>2, <1>3, <1>4, <1>5, <2>1 DEF OwnNewest, Newest
<1> QED
  BY <1>7, <1>8, <1>10, <1>11, <1>12

\* A release is of the newest epoch, or of one that has been superseded.
LEMMA Renaming ==
  ASSUME LockInv, NEW p \in Proc, Disown(p) \/ Mark(p)
  PROVE  LockParts'
<1> USE DEF LockInv, LockParts, TypeOK
<1>1. [Next]_vars
  BY DEF Next, Proceed
<1>2. /\ files' = files \/ Rename(p)
      /\ pc' = [pc EXCEPT ![p] = "idle"]
      /\ UNCHANGED <<alive, calls, seen, peer, todo>>
      /\ p \in alive
      /\ calls[p] # 0
  BY DEF Disown, Mark, At, Go, FreshIdle
<1>3. Newer(Fence(p)) \/ Newest(Linked(p))
  BY DEF Disown, Mark, At, Forsaken, OwnNewest, Certain, Holding
<1>4. \A q \in Proc : /\ Linked(q)' = Linked(q) /\ Fence(q)' = Fence(q)
                      /\ Fence(q) \in Nat
                      /\ Linker(q)' => Linker(q) /\ q # p
                      /\ Certain(q)' => Certain(q) /\ q # p
  BY <1>2 DEF Linked, Fence, Me, Linker, Certain, Verifying, Holding
<1>5. \A q \in Proc : Newer(Fence(q)) => Newer(Fence(q))'
  BY <1>1, <1>2, <1>4, NewerStays DEF Newer, Fence
<1>6. Linked(p).fence = Fence(p) /\ Released(p).fence = Fence(p)
  BY DEF Linked, Released
<1>7. FreshIdle' /\ RetiresOld' /\ OneFile'
  BY <1>2, <1>6 DEF FreshIdle, OneFile, RetiresOld, Fence, Rename
<1>8. SeenBelow'
  BY <1>1, <1>2, Rising, TypeStep DEF SeenBelow, Epochs
<1>9. ASSUME NEW q \in Proc, q # p, Linked(q) \in files, Linked(q) \notin files'
      PROVE  Newer(Fence(q))'
  <2>1. Linked(q).fence = Fence(p) /\ Fence(q) = Fence(p)
    BY <1>2, <1>9 DEF Rename, Linked
  <2>2. ~Newest(Linked(p))
    BY <1>6, <1>9, <2>1 DEF OneFile, Newest, Linked, Me
  <2> QED
    BY <1>3, <1>5, <2>1, <2>2
<1>10. LinkedStays'
  BY <1>4, <1>5, <1>9 DEF LinkedStays
<1>11. Displaced' /\ Forsaken'
  BY <1>2, <1>4, <1>5 DEF Displaced, Forsaken
<1>12. ASSUME NEW q \in Proc, q # p, Newest(Linked(q)) PROVE Newest(Linked(q))'
  <2>1. Linked(q).fence = Fence(q) /\ Linked(q).token.proc = q /\ Linked(p).token.proc = p
    BY DEF Linked, Me
  <2>2. Fence(p) < Fence(q)
    <3>1. CASE Newer(Fence(p))
      BY <1>12, <2>1, <3>1, RecordTypes DEF Newest, Newer, Epochs
    <3>2. CASE Newest(Linked(p))
      <4>1. Linked(p).fence # Linked(q).fence
        BY <1>12, <2>1, <3>2 DEF OneFile, Newest
      <4> QED
        BY <1>6, <1>12, <2>1, <3>2, <4>1, RecordTypes DEF Newest
    <3> QED
      BY <1>3, <3>1, <3>2
  <2> QED
    BY <1>2, <1>4, <1>6, <1>12, <2>1, <2>2 DEF Newest, Rename
<1>13. OwnNewest'
  BY <1>4, <1>12 DEF OwnNewest
<1> QED
  BY <1>7, <1>8, <1>10, <1>11, <1>13

\* A machine that restarts has no process in the middle of a call, and a torn file
\* keeps its fence.
LEMMA Restarting ==
  ASSUME LockInv, PowerLoss
  PROVE  LockParts'
<1> USE DEF LockInv, LockParts, TypeOK
<1>1. [Next]_vars
  BY DEF Next
<1>2. \A p \in alive' : p \in Proc /\ pc'[p] = "idle"
  BY DEF PowerLoss, FreshIdle
<1>3. FreshIdle'
  BY DEF PowerLoss, FreshIdle
<1>4. OneFile'
  <2>1. CASE files' = files
    BY <2>1 DEF OneFile
  <2>2. ASSUME NEW t \in files,
               files' = (files \ {t}) \union {[t EXCEPT !.token = None]}
        PROVE  OneFile'
    <3> DEFINE torn == [t EXCEPT !.token = None]
    <3> t \in [fence : Nat \ {0}, token : Id \union {None}, released : BOOLEAN]
      BY DEF Epochs
    <3>1. files' = (files \ {t}) \union {torn} /\ torn.fence = t.fence
      BY <2>2
    <3> HIDE DEF torn
    <3> QED
      BY <3>1 DEF OneFile
  <2> QED
    BY <2>1, <2>2 DEF PowerLoss
<1>5. SeenBelow'
  BY <1>1, Rising, TypeStep DEF PowerLoss, SeenBelow, Epochs
<1>6. LinkedStays' /\ Displaced' /\ OwnNewest' /\ Forsaken' /\ RetiresOld'
  BY <1>2 DEF LinkedStays, Displaced, OwnNewest, Forsaken, RetiresOld, Linker,
              Certain, Verifying, Holding
<1> QED
  BY <1>3, <1>4, <1>5, <1>6

\* Beginning a call and dying leave the lock as it is.
LEMMA Coming ==
  ASSUME LockInv, NEW p \in Proc, NEW verb \in {"reserve", "advance", "clear"},
         Begin(p, verb) \/ Crash(p)
  PROVE  LockParts'
<1> USE DEF LockInv, TypeOK, LockParts, FreshIdle, OneFile, SeenBelow,
            LinkedStays, Displaced, OwnNewest, Forsaken, RetiresOld, Linker,
            Certain, Newer, Newest, At, Go, Waiting, Verifying, Holding, Linked,
            Fence, Me, shared
<1>1. CASE Begin(p, verb)
  BY <1>1 DEF Begin
<1>2. CASE Crash(p)
  BY <1>2 DEF Crash
<1> QED
  BY <1>1, <1>2

\* LockInv is inductive.
LEMMA LockStep == LockInv /\ [Next]_vars => LockInv'
<1> SUFFICES ASSUME LockInv, [Next]_vars PROVE LockInv'
  OBVIOUS
<1>1. TypeOK'
  BY TypeStep DEF LockInv
<1>2. ASSUME NEW p \in Proc, Proceed(p) PROVE LockParts'
  BY <1>2, Walking, Looking, Linking, Retiring, Renaming DEF Proceed
<1>3. CASE PowerLoss
  BY <1>1, <1>3, Restarting DEF LockInv
<1>4. ASSUME NEW p \in Proc, NEW verb \in {"reserve", "advance", "clear"},
             Begin(p, verb) \/ Crash(p)
      PROVE  LockParts'
  BY <1>4, Coming
<1>5. CASE UNCHANGED vars
  BY <1>1, <1>5
     DEF vars, LockInv, LockParts, FreshIdle, OneFile, SeenBelow, LinkedStays,
         Displaced, OwnNewest, Forsaken, RetiresOld, Linker, Certain, Newer,
         Newest, Linked, Fence, Me
<1> QED
  BY <1>1, <1>2, <1>3, <1>4, <1>5 DEF Next, Finished, LockInv

\* Nothing is linked and nobody calls at first.
LEMMA LockInit == Init => LockInv
<1> SUFFICES ASSUME Init PROVE LockInv
  OBVIOUS
<1> USE ProcAssumption DEF Init
<1>1. TypeOK
  BY DEF TypeOK, Waiting
<1>2. LockParts
  BY DEF LockParts, FreshIdle, OneFile, SeenBelow, LinkedStays, Displaced,
         OwnNewest, Forsaken, RetiresOld, Linker, Certain, Verifying, Holding
<1> QED
  BY <1>1, <1>2 DEF LockInv

-----------------------------------------------------------------------------

\* The lock's invariant holds however many processes call, die and restart.
THEOREM LockInvariant == Spec => []LockInv
  BY LockInit, LockStep, PTL DEF Spec

\* Every variable keeps its type, and no acquire meets contention too often.
THEOREM LockTyped == Spec => []TypeOK
<1>1. LockInv => TypeOK
  BY DEF LockInv
<1> QED
  BY <1>1, LockInvariant, PTL

\* Two live processes are never under the lock at once.
THEOREM Exclusive == Spec => []MutualExclusion
<1>1. LockInv => MutualExclusion
  BY OneCertain
     DEF LockInv, LockParts, MutualExclusion, Inside, Certain
<1> QED
  BY <1>1, LockInvariant, PTL

\* The fence checks of a live process never turn its own call away.
THEOREM FenceKept == Spec => []FenceHeld
<1>1. LockInv => FenceHeld
  BY DEF LockInv, LockParts, FenceHeld, OwnNewest, Inside, Certain
<1> QED
  BY <1>1, LockInvariant, PTL

\* No step takes the newest epoch away.
THEOREM EpochsNeverFall == Spec => EpochsRise
<1>1. LockInv /\ [Next]_vars
        => [\A r \in files : \E s \in files' : r.fence <= s.fence]_vars
  BY Rising
<1> QED
  BY <1>1, LockInvariant, PTL DEF Spec, EpochsRise

-----------------------------------------------------------------------------
(* The reservation.                                                        *)

\* Past its match a live process holds the very reservation on disk: nobody else
\* is under the lock to change it.
Matched ==
  \A p \in Proc : p \in alive /\ pc[p] \in {"recheck", "write"} =>
    marker # None /\ marker.id = handle[p]

StoreInv == LockInv /\ Matched /\ GrantedKept

\* Only a process under the lock changes the marker, so a match holds until its
\* write, and what is granted is on disk.
LEMMA StoreStep == StoreInv /\ [Next]_vars => StoreInv'
<1> SUFFICES ASSUME StoreInv, [Next]_vars PROVE StoreInv'
  OBVIOUS
<1> USE DEF StoreInv
<1>1. LockInv'
  BY LockStep
<1>2. TypeOK /\ MutualExclusion
  BY OneCertain DEF LockInv, LockParts, MutualExclusion, Inside, Certain
<1>3. ASSUME marker' = marker, granted' = granted
      PROVE  GrantedKept'
  BY <1>3 DEF GrantedKept
<1>4. ASSUME NEW p \in Proc, Match(p) PROVE Matched' /\ GrantedKept'
  BY <1>4, <1>3 DEF Match, Matches, At, Go, Matched, shared
<1>5. ASSUME NEW p \in Proc, Create(p) PROVE Matched' /\ GrantedKept'
  <2>1. GrantedKept'
    <3>1. CASE UNCHANGED <<marker, granted>>
      BY <1>3, <3>1
    <3>2. CASE /\ marker = None
               /\ marker' = [id |-> Me(p), phase |-> "reserved"]
               /\ granted' = granted \union {Me(p)}
      <4>1. marker' # None /\ marker'.id = Me(p)
        BY <1>2, <3>2, RecordTypes, ProcAssumption DEF Id
      <4>2. granted = {}
        BY <3>2 DEF GrantedKept
      <4> QED
        BY <3>2, <4>1, <4>2 DEF GrantedKept
    <3> QED
      BY <1>5, <3>1, <3>2 DEF Create, Vacant
  <2>2. \A q \in Proc : q \in alive /\ pc[q] \in {"recheck", "write"} => q = p
    BY <1>2, <1>5 DEF Create, At, MutualExclusion, Inside, Holding
  <2>3. Matched'
    BY <1>2, <1>5, <2>2 DEF Create, At, Go, Matched, TypeOK
  <2> QED
    BY <2>1, <2>3
<1>6. ASSUME NEW p \in Proc, Write(p) PROVE Matched' /\ GrantedKept'
  <2>1. marker # None /\ marker.id = handle[p]
    BY <1>6 DEF Write, At, Matched
  <2>2. GrantedKept'
    <3>1. CASE UNCHANGED <<marker, granted>>
      BY <1>3, <3>1
    <3>2. ASSUME NEW phase \in Phases, marker' = [id |-> handle[p], phase |-> phase],
                 granted' = granted
          PROVE  GrantedKept'
      <4>1. handle[p] \in Id
        BY <1>2, <2>1 DEF TypeOK, Markers
      <4>2. marker' # None /\ marker'.id = handle[p]
        BY <3>2, <4>1, ProcAssumption DEF Id, Phases
      <4> QED
        BY <2>1, <3>2, <4>2 DEF GrantedKept
    <3>3. CASE granted' = granted \ {handle[p]}
      BY <2>1, <3>3 DEF GrantedKept
    <3> QED
      BY <1>6, <3>1, <3>2, <3>3 DEF Write
  <2>3. \A q \in Proc : q \in alive /\ pc[q] \in {"recheck", "write"} => q = p
    BY <1>2, <1>6 DEF Write, At, MutualExclusion, Inside, Holding
  <2>4. Matched'
    BY <1>2, <1>6, <2>3 DEF Write, At, Go, Matched, TypeOK
  <2> QED
    BY <2>2, <2>4
<1>7. ASSUME NEW p \in Proc,
             \/ Look(p) \/ Read(p) \/ Probe(p) \/ Link(p) \/ Verify(p)
             \/ Forsake(p) \/ Disown(p) \/ Confirm(p) \/ Sweep(p) \/ Retire(p)
             \/ Enter(p) \/ Inspect(p) \/ Check(p) \/ Recheck(p) \/ Release(p)
             \/ Mark(p)
      PROVE  Matched' /\ GrantedKept'
  <2>1. UNCHANGED <<alive, marker, granted, handle>>
    BY <1>7 DEF Look, Read, Probe, Link, Verify, Forsake, Disown, Confirm, Sweep,
                Retire, Enter, Inspect, Check, Recheck, Release, Mark, shared
  <2>2. \A q \in Proc : pc'[q] \in {"recheck", "write"} => pc[q] \in {"recheck", "write"}
    <3>1. CASE Look(p) \/ Verify(p) \/ Forsake(p) \/ Confirm(p) \/ Release(p)
      BY <1>2, <3>1 DEF Look, Verify, Forsake, Confirm, Release, At, Go, TypeOK
    <3>2. CASE Read(p)
      BY <1>2, <3>2 DEF Read, At, Go, Refuse, TypeOK
    <3>3. CASE Probe(p) \/ Link(p)
      BY <1>2, <3>3 DEF Probe, Link, At, Go, Refuse, Contend, TypeOK
    <3>4. CASE Disown(p) \/ Mark(p) \/ Sweep(p) \/ Retire(p) \/ Enter(p)
      BY <1>2, <3>4 DEF Disown, Mark, Sweep, Retire, Enter, At, Go, TypeOK
    <3>5. CASE Inspect(p) \/ Check(p) \/ Recheck(p)
      BY <1>2, <3>5 DEF Inspect, Check, Recheck, At, Go, TypeOK
    <3> QED
      BY <1>7, <3>1, <3>2, <3>3, <3>4, <3>5
  <2> QED
    BY <1>2, <1>3, <2>1, <2>2 DEF Matched, TypeOK
<1>8. ASSUME NEW p \in Proc, NEW verb \in {"reserve", "advance", "clear"},
             Begin(p, verb) \/ Crash(p)
      PROVE  Matched' /\ GrantedKept'
  BY <1>2, <1>3, <1>8 DEF Begin, Crash, At, Go, Matched, TypeOK, shared
<1>9. CASE PowerLoss
  BY <1>1, <1>3, <1>9 DEF PowerLoss, Matched
<1>10. CASE UNCHANGED vars
  BY <1>1, <1>3, <1>10 DEF vars, Matched
<1>11. ASSUME NEW p \in Proc, Proceed(p) PROVE Matched' /\ GrantedKept'
  BY <1>4, <1>5, <1>6, <1>7, <1>11 DEF Proceed
<1> QED
  BY <1>1, <1>8, <1>9, <1>10, <1>11 DEF Next, Finished

\* A reservation given to a caller stays on disk until its own handle clears it.
THEOREM GrantsKept == Spec => []GrantedKept
<1>1. Init => StoreInv
  BY LockInit DEF Init, StoreInv, Matched, GrantedKept
<1>2. StoreInv => GrantedKept
  BY DEF StoreInv
<1> QED
  BY <1>1, <1>2, StoreStep, PTL DEF Spec

\* The marker is created where there is none, rewritten under its own identity or
\* removed: reservations follow one another.
LEMMA MarkerStep ==
  StoreInv /\ [Next]_vars =>
    \/ marker' = marker
    \/ marker = None /\ \E i \in Id : marker' = [id |-> i, phase |-> "reserved"]
    \/ /\ marker # None
       /\ \E f \in Phases : marker' = [id |-> marker.id, phase |-> f]
    \/ marker # None /\ marker' = None
<1> SUFFICES ASSUME StoreInv, [Next]_vars, marker' # marker
             PROVE  \/ marker = None /\ \E i \in Id : marker' = [id |-> i, phase |-> "reserved"]
                    \/ /\ marker # None
                       /\ \E f \in Phases : marker' = [id |-> marker.id, phase |-> f]
                    \/ marker # None /\ marker' = None
  OBVIOUS
<1>1. PICK p \in Proc : Create(p) \/ Write(p)
  BY DEF Next, Proceed, Begin, Crash, PowerLoss, Finished, Look, Read, Probe,
         Link, Verify, Forsake, Disown, Confirm, Sweep, Retire, Enter, Inspect,
         Check, Match, Recheck, Release, Mark, shared, vars
<1>2. CASE Create(p)
  BY <1>2, RecordTypes DEF Create, Vacant, StoreInv, LockInv
<1>3. CASE Write(p)
  <2>1. marker # None /\ marker.id = handle[p]
    BY <1>3 DEF Write, At, Matched, StoreInv
  <2> QED
    BY <1>3, <2>1 DEF Write
<1> QED
  BY <1>1, <1>2, <1>3

\* The store gives one reservation at a time, advanced only under its own handle.
THEOREM StoreImplements == Spec => OneReservation
<1> USE DEF Abstract!Next, Abstract!Reserve, Abstract!Advance, Abstract!Clear
<1>1. Init => Abstract!Init
  BY DEF Init, Abstract!Init
<1>2. ASSUME StoreInv, [Next]_vars
      PROVE  [Abstract!Next]_<<IF marker = None THEN None ELSE marker.id,
                               IF marker = None THEN None ELSE marker.phase>>
  <2>1. None \notin Id /\ \A i \in Id, f \in Phases : None # [id |-> i, phase |-> f]
    BY ProcAssumption DEF Id, Phases
  <2>2. marker # None => marker.id \in Id /\ marker.phase \in Phases
    <3>1. marker # None => marker \in [id : Id, phase : Phases]
      BY <1>2 DEF StoreInv, LockInv, TypeOK, Markers
    <3> QED
      BY <3>1
  <2>3. CASE marker' = marker
    BY <2>3
  <2>4. ASSUME marker = None, NEW i \in Id, marker' = [id |-> i, phase |-> "reserved"]
        PROVE  Abstract!Next
    BY <2>1, <2>4 DEF Phases
  <2>5. ASSUME marker # None, NEW f \in Phases,
               marker' = [id |-> marker.id, phase |-> f]
        PROVE  Abstract!Next
    BY <2>1, <2>2, <2>5
  <2>6. ASSUME marker # None, marker' = None PROVE Abstract!Next
    BY <2>1, <2>2, <2>6
  <2> QED
    BY <1>2, <2>3, <2>4, <2>5, <2>6, MarkerStep
<1>3. Init => StoreInv
  BY LockInit DEF Init, StoreInv, Matched, GrantedKept
<1> QED
  BY <1>1, <1>2, <1>3, StoreStep, PTL DEF Spec, OneReservation, Abstract!Spec
=============================================================================
