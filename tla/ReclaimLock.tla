---------------------------- MODULE ReclaimLock ----------------------------
(***************************************************************************)
(* The token-fenced lock of crew/reclaim.mjs and the reservation marker it *)
(* guards.  A lock is a directory of epoch files; the newest epoch is the  *)
(* lock, held until its record says released or its owner's pid is dead.   *)
(* Processes share nothing but the directory: each file operation is a     *)
(* step of its own, a process may die before any of them, and the machine  *)
(* may lose its power and what the newest file held.                       *)
(***************************************************************************)
EXTENDS Integers

CONSTANTS
  Proc,         \* the processes, each with a pid of its own
  None,         \* no token, no marker, no handle
  MaxAttempts,  \* maxAttempts: how often one acquire may meet contention
  Calls         \* how many calls each process makes: bounds the model only

ASSUME ProcAssumption ==
  /\ None \notin [proc : Proc, call : Nat]
  /\ None \notin [id : [proc : Proc, call : Nat], phase : {"reserved", "spawning", "running"}]
  /\ MaxAttempts \in Nat \ {0}
  /\ Calls \in [Proc -> Nat]

\* A uuid is made once: by the process and the call that made it.
Id == [proc : Proc, call : Nat]
Phases == {"reserved", "spawning", "running"}
Markers == [id : Id, phase : Phases]

\* What an epoch file says; no token in a file whose bytes are lost.
Epochs == [fence : Nat \ {0}, token : Id \union {None}, released : BOOLEAN]

VARIABLES
  alive,     \* the processes whose pid is theirs
  files,     \* the epoch files of the lock directory
  marker,    \* the reservation marker file, None when absent
  granted,   \* reservations given to a caller and not cleared by one
  pc,        \* what each process does next
  call,      \* the verb it called
  calls,     \* how many calls it has made
  attempts,  \* contention it has met in this acquire
  seen,      \* newest epoch it has listed; it links the one after
  peer,      \* owner of the unreleased epoch it has read
  todo,      \* superseded epochs it is about to retire
  handle     \* the last reservation it was given

shared == <<files, marker, granted>>
vars == <<alive, files, marker, granted, pc, call, calls, attempts, seen, peer,
          todo, handle>>

At(p, where) == p \in alive /\ pc[p] = where
Go(p, where) == pc' = [pc EXCEPT ![p] = where]

Me(p) == [proc |-> p, call |-> calls[p]]
Fence(p) == seen[p] + 1

Newest(r) == r \in files /\ \A s \in files : s.fence <= r.fence
NoFile(f) == \A r \in files : r.fence # f

\* The epoch p linked, as p wrote it, and after it is released.
Linked(p) == [fence |-> Fence(p), token |-> Me(p), released |-> FALSE]
Released(p) == [fence |-> Fence(p), token |-> Me(p), released |-> TRUE]

\* A rename puts p's released record at its path, whatever is there.
Rename(p) == files' = {r \in files : r.fence # Fence(p)} \union {Released(p)}

Init ==
  /\ alive = Proc
  /\ files = {}
  /\ marker = None
  /\ granted = {}
  /\ pc = [p \in Proc |-> "idle"]
  /\ call = [p \in Proc |-> "reserve"]
  /\ calls = [p \in Proc |-> 0]
  /\ attempts = [p \in Proc |-> 0]
  /\ seen = [p \in Proc |-> 0]
  /\ peer = [p \in Proc |-> p]
  /\ todo = [p \in Proc |-> {}]
  /\ handle = [p \in Proc |-> None]

-----------------------------------------------------------------------------
(* acquire.                                                                *)

\* reserve, or advance or clear with a handle, which may be stale by now.
Begin(p, verb) ==
  /\ At(p, "idle")
  /\ calls[p] < Calls[p]
  /\ verb # "reserve" => handle[p] # None
  /\ call' = [call EXCEPT ![p] = verb]
  /\ calls' = [calls EXCEPT ![p] = @ + 1]
  /\ attempts' = [attempts EXCEPT ![p] = 0]
  /\ Go(p, "look")
  /\ UNCHANGED <<alive, shared, seen, peer, todo, handle>>

\* The lock is not had: reserve and clear return it, advance throws it.
Refuse(p) == Go(p, "idle") /\ UNCHANGED attempts

\* Mutants: contention is not counted; it is tried once too often.
ContendForever(p) == Go(p, "look") /\ UNCHANGED attempts
ContendOnceMore(p) ==
  /\ attempts' = [attempts EXCEPT ![p] = @ + 1]
  /\ Go(p, IF attempts'[p] > MaxAttempts THEN "idle" ELSE "look")

\* Asked again after a pause, until the attempts or the time are spent.
Contend(p) ==
  /\ attempts' = [attempts EXCEPT ![p] = @ + 1]
  /\ \/ attempts'[p] < MaxAttempts /\ Go(p, "look")
     \/ Go(p, "idle")

\* current lists the directory, then reads the newest file.
Look(p) ==
  /\ At(p, "look")
  /\ \/ files = {} /\ seen' = [seen EXCEPT ![p] = 0] /\ Go(p, "link")
     \/ \E r \in files : /\ Newest(r)
                         /\ seen' = [seen EXCEPT ![p] = r.fence]
                         /\ Go(p, "read")
  /\ UNCHANGED <<alive, shared, call, calls, attempts, peer, todo, handle>>

\* A file retired since it was listed is refused like a torn one.
Read(p) ==
  /\ At(p, "read")
  /\ \/ NoFile(seen[p]) /\ Refuse(p) /\ UNCHANGED peer
     \/ \E r \in files :
          /\ r.fence = seen[p]
          /\ \/ r.token = None /\ Refuse(p) /\ UNCHANGED peer
             \/ /\ r.token # None /\ r.released
                /\ Go(p, "link")
                /\ UNCHANGED <<attempts, peer>>
             \/ /\ r.token # None /\ ~r.released
                /\ peer' = [peer EXCEPT ![p] = r.token.proc]
                /\ Go(p, "probe")
                /\ UNCHANGED attempts
  /\ UNCHANGED <<alive, shared, call, calls, seen, todo, handle>>

\* Only a dead owner is displaced; another process may have its pid by now.
Probe(p) ==
  /\ At(p, "probe")
  /\ \/ peer[p] \notin alive /\ Go(p, "link") /\ UNCHANGED attempts
     \/ Contend(p)
  /\ UNCHANGED <<alive, shared, call, calls, seen, peer, todo, handle>>

\* linkSync creates the next epoch or finds it there; it may fail.
Link(p) ==
  /\ At(p, "link")
  /\ \/ /\ NoFile(Fence(p))
        /\ files' = files \union {Linked(p)}
        /\ Go(p, "verify")
        /\ UNCHANGED attempts
     \/ ~NoFile(Fence(p)) /\ Contend(p) /\ UNCHANGED files
     \/ Refuse(p) /\ UNCHANGED files
  /\ UNCHANGED <<alive, marker, granted, call, calls, seen, peer, todo, handle>>

\* Mutant: the link alone decides.
VerifySkipped(p) ==
  /\ At(p, "verify")
  /\ Go(p, "sweep")
  /\ UNCHANGED <<alive, shared, call, calls, attempts, seen, peer, todo, handle>>

\* The directory is listed again: an epoch retired long ago can be linked anew.
Verify(p) ==
  /\ At(p, "verify")
  /\ \/ /\ \E r \in files : Newest(r) /\ r.fence > Fence(p)
        /\ Go(p, "forsake")
     \/ /\ \E r \in files : Newest(r) /\ r.fence = Fence(p)
        /\ Go(p, "confirm")
     \/ /\ \A r \in files : r.fence < Fence(p)
        /\ Go(p, "idle")
  /\ UNCHANGED <<alive, shared, call, calls, attempts, seen, peer, todo, handle>>

\* releaseHistorical: p's superseded epoch is read, then marked released.
Forsake(p) ==
  /\ At(p, "forsake")
  /\ Go(p, IF Linked(p) \in files THEN "disown" ELSE "idle")
  /\ UNCHANGED <<alive, shared, call, calls, attempts, seen, peer, todo, handle>>

Disown(p) ==
  /\ At(p, "disown")
  /\ Rename(p) \/ UNCHANGED files
  /\ Go(p, "idle")
  /\ UNCHANGED <<alive, marker, granted, call, calls, attempts, seen, peer,
                 todo, handle>>

Confirm(p) ==
  /\ At(p, "confirm")
  /\ Go(p, IF \E r \in files : r.fence = Fence(p) /\ r.token = Me(p)
           THEN "sweep" ELSE "idle")
  /\ UNCHANGED <<alive, shared, call, calls, attempts, seen, peer, todo, handle>>

\* Mutant: the swept epochs include p's own.
SweepAll(p) ==
  /\ At(p, "sweep")
  /\ todo' = [todo EXCEPT ![p] = {r.fence : r \in files}]
  /\ Go(p, "retire")
  /\ UNCHANGED <<alive, shared, call, calls, attempts, seen, peer, handle>>

\* retireSuperseded lists what is older, then unlinks it, oldest first; an
\* unlink that fails is skipped.
Sweep(p) ==
  /\ At(p, "sweep")
  /\ todo' = [todo EXCEPT ![p] = {r.fence : r \in {s \in files : s.fence < Fence(p)}}]
  /\ Go(p, "retire")
  /\ UNCHANGED <<alive, shared, call, calls, attempts, seen, peer, handle>>

Retire(p) ==
  /\ At(p, "retire")
  /\ \E e \in todo[p] :
       /\ \A f \in todo[p] : e <= f
       /\ todo' = [todo EXCEPT ![p] = @ \ {e}]
       /\ files' \in {files, {r \in files : r.fence # e}}
  /\ UNCHANGED <<alive, marker, granted, pc, call, calls, attempts, seen, peer,
                 handle>>

Enter(p) ==
  /\ At(p, "retire")
  /\ todo[p] = {}
  /\ Go(p, "held")
  /\ UNCHANGED <<alive, shared, call, calls, attempts, seen, peer, todo, handle>>

-----------------------------------------------------------------------------
(* The verbs, under the lock.                                              *)

\* Any marker at all refuses a reserve, a dead owner's too.
Vacant == marker = None

Inspect(p) ==
  /\ At(p, "held")
  /\ call[p] = "reserve"
  /\ Go(p, IF Vacant THEN "create" ELSE "release")
  /\ UNCHANGED <<alive, shared, call, calls, attempts, seen, peer, todo, handle>>

\* writeNew links the marker: it creates it, finds one there, or fails.
Create(p) ==
  /\ At(p, "create")
  /\ \/ /\ Vacant
        /\ marker' = [id |-> Me(p), phase |-> "reserved"]
        /\ granted' = granted \union {Me(p)}
        /\ handle' = [handle EXCEPT ![p] = Me(p)]
     \/ UNCHANGED <<marker, granted, handle>>
  /\ Go(p, "release")
  /\ UNCHANGED <<alive, files, call, calls, attempts, seen, peer, todo>>

\* checkFence: the newest epoch is p's own and not released.  Listed and read
\* at once: p's record is the same at both, or the check fails.
Fenced(p) == Newest(Linked(p))

\* Mutant: any marker will do.
MatchesAny(p) == marker # None
Matches(p) == marker # None /\ marker.id = handle[p]

Check(p) ==
  /\ At(p, "held")
  /\ call[p] # "reserve"
  /\ Go(p, IF Fenced(p) THEN "match" ELSE "release")
  /\ UNCHANGED <<alive, shared, call, calls, attempts, seen, peer, todo, handle>>

Match(p) ==
  /\ At(p, "match")
  /\ Go(p, IF Matches(p) THEN "recheck" ELSE "release")
  /\ UNCHANGED <<alive, shared, call, calls, attempts, seen, peer, todo, handle>>

Recheck(p) ==
  /\ At(p, "recheck")
  /\ Go(p, IF Fenced(p) THEN "write" ELSE "release")
  /\ UNCHANGED <<alive, shared, call, calls, attempts, seen, peer, todo, handle>>

\* advance renames a marker of its own over whatever is there, clear unlinks
\* whatever is there; either may fail.
Write(p) ==
  /\ At(p, "write")
  /\ \/ /\ call[p] = "advance"
        /\ \E phase \in Phases : marker' = [id |-> handle[p], phase |-> phase]
        /\ UNCHANGED granted
     \/ /\ call[p] = "clear"
        /\ marker' = None
        /\ granted' = granted \ {handle[p]}
     \/ UNCHANGED <<marker, granted>>
  /\ Go(p, "release")
  /\ UNCHANGED <<alive, files, call, calls, attempts, seen, peer, todo, handle>>

\* releaseEpoch reads the newest epoch, then marks it released if it is p's.
Release(p) ==
  /\ At(p, "release")
  /\ Go(p, IF \E r \in files : Newest(r) /\ r.fence = Fence(p) /\ r.token = Me(p)
           THEN "mark" ELSE "idle")
  /\ UNCHANGED <<alive, shared, call, calls, attempts, seen, peer, todo, handle>>

Mark(p) ==
  /\ At(p, "mark")
  /\ Rename(p) \/ UNCHANGED files
  /\ Go(p, "idle")
  /\ UNCHANGED <<alive, marker, granted, call, calls, attempts, seen, peer,
                 todo, handle>>

-----------------------------------------------------------------------------

Crash(p) ==
  /\ p \in alive
  /\ alive' = alive \ {p}
  /\ UNCHANGED <<shared, pc, call, calls, attempts, seen, peer, todo, handle>>

\* The machine restarts: the processes that made no call yet are the ones
\* started after it.  The newest epoch file may have lost its bytes; the marker
\* file is taken to keep its own.
PowerLoss ==
  /\ alive' = {p \in alive : calls[p] = 0}
  /\ \/ UNCHANGED files
     \/ \E r \in files :
          /\ Newest(r)
          /\ files' = (files \ {r}) \union {[r EXCEPT !.token = None]}
  /\ UNCHANGED <<marker, granted, pc, call, calls, attempts, seen, peer, todo,
                 handle>>

Proceed(p) ==
  \/ Look(p) \/ Read(p) \/ Probe(p) \/ Link(p) \/ Verify(p) \/ Forsake(p)
  \/ Disown(p) \/ Confirm(p) \/ Sweep(p) \/ Retire(p) \/ Enter(p)
  \/ Inspect(p) \/ Create(p) \/ Check(p) \/ Match(p) \/ Recheck(p) \/ Write(p)
  \/ Release(p) \/ Mark(p)

Finished ==
  /\ \A p \in alive : pc[p] = "idle" /\ calls[p] = Calls[p]
  /\ UNCHANGED vars

Next ==
  \/ \E p \in Proc : Proceed(p) \/ Crash(p)
  \/ \E p \in Proc, verb \in {"reserve", "advance", "clear"} : Begin(p, verb)
  \/ PowerLoss
  \/ Finished

\* A process that runs goes on with its call; whether it makes one, crashes or
\* meets a power loss is not up to the code.
Spec == Init /\ [][Next]_vars /\ \A p \in Proc : WF_vars(Proceed(p))

-----------------------------------------------------------------------------
(* Properties.                                                             *)

Waiting == {"look", "read", "probe", "link"}
Verifying == {"verify", "forsake", "disown", "confirm"}
Holding == {"sweep", "retire", "held", "create", "match", "recheck", "write",
            "release", "mark"}

\* Every variable stays in the set of values the code gives it; no acquire meets
\* contention more than maxAttempts times.
TypeOK ==
  /\ alive \subseteq Proc
  /\ files \subseteq Epochs
  /\ marker \in Markers \union {None}
  /\ granted \subseteq Id
  /\ pc \in [Proc -> {"idle"} \union Waiting \union Verifying \union Holding]
  /\ call \in [Proc -> {"reserve", "advance", "clear"}]
  /\ calls \in [Proc -> Nat]
  /\ attempts \in [Proc -> 0..MaxAttempts]
  /\ seen \in [Proc -> Nat]
  /\ peer \in [Proc -> Proc]
  /\ todo \in [Proc -> SUBSET Nat]
  /\ handle \in [Proc -> Id \union {None}]
  /\ \A p \in Proc :
       /\ pc[p] \in Waiting => attempts[p] < MaxAttempts
       /\ pc[p] # "idle" /\ call[p] # "reserve" => handle[p] # None

Inside(p) == p \in alive /\ pc[p] \in Holding

\* Two live processes are never under the lock at once, whatever they listed
\* before others acquired, released and retired epochs.
MutualExclusion == \A p, q \in Proc : Inside(p) /\ Inside(q) => p = q

\* While a live process is under the lock its own unreleased epoch is the newest:
\* the fence checks of advance and clear never turn its own call away.
FenceHeld == \A p \in Proc : Inside(p) => Newest(Linked(p))

\* No step takes the newest epoch away, so a fence once passed is never given
\* out as the lock again.
EpochsRise ==
  [][\A r \in files : \E s \in files' : r.fence <= s.fence]_vars

\* A reservation stays on disk until a call with its own handle clears it,
\* across stale handles, crashes and power losses that spare the marker file; so
\* there is one at most.
GrantedKept == \A id \in granted : marker # None /\ marker.id = id

\* Every call of a process that lives returns.
Returns ==
  \A p \in Proc : pc[p] # "idle" ~> (pc[p] = "idle" \/ p \notin alive)

\* docs/conventions.md, which reclaim.mjs inherits: "treat a corrupt lock as
\* stale, never a wedge".  A call that finds the newest epoch torn gets past it.
TornNeverRefuses ==
  [][\A p \in Proc, r \in files :
       pc[p] = "read" /\ r.fence = seen[p] /\ r.token = None => pc'[p] # "idle"]_vars

\* The reservation as its callers know it.
Abstract == INSTANCE Reservation WITH
  holder <- IF marker = None THEN None ELSE marker.id,
  phase <- IF marker = None THEN None ELSE marker.phase

\* The marker, the lock and the fences together give one reservation at a time,
\* advanced only by its holder's own handle.
OneReservation == Abstract!Spec

=============================================================================
