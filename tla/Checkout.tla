------------------------------ MODULE Checkout ------------------------------
(***************************************************************************)
(* commitChanges, restoreCheckout and rebaseBranch of crew/checks.mjs: the *)
(* git commands one call gives, one after the other, in a lane's checkout. *)
(* A command that does not come back green may have done its work, or half *)
(* of it, and may leave a lock behind; a read may fail.  Other lanes fetch *)
(* into the same repository.  A tree is the set of the changes it holds.   *)
(***************************************************************************)
EXTENDS Naturals, FiniteSets

VARIABLES
  co,      \* the checkout: HEAD, index and work tree, what git has under way, on its branch
  ignored, \* the change that would write over an ignored file here, and whether it did
  origin,  \* origin/<base>: what it holds beyond the lane's first base
  call     \* the call under way: its place, what it read, what it returned

checkout == <<co, ignored, origin, call>>

\* The lane's change of the listed files, an earlier draft of it that is staged, what
\* somebody staged beside it; upstream's changes; what the declared command writes.
Lane == {"mine", "draft", "beside"}
Upstream == {"up", "later"}
Changes == Lane \union Upstream \union {"generated", "conflict"}

\* A call returns its result and, after a rebase, the commit it was resolved to.
Idle(result) == [at |-> "idle", before |-> {}, onto |-> {}, new |-> {}, why |-> "none",
                 sound |-> TRUE, generated |-> FALSE, result |-> result]

CheckoutInit ==
  /\ \E staged \in SUBSET {"mine", "beside"}, draft \in SUBSET {"draft"} :
       /\ Cardinality(draft \union (staged \ {"beside"})) <= 1
       /\ co = [head |-> {}, index |-> staged \union draft, work |-> {"mine"} \union staged,
                busy |-> {}, onBranch |-> TRUE]
  /\ \E path \in Upstream \union {"generated", "none"} : ignored = [path |-> path, kept |-> TRUE]
  /\ origin = {}
  /\ call = Idle("none")

-----------------------------------------------------------------------------
(* One git command                                                         *)

Go(at) == call' = [call EXCEPT !.at = at]
Return(result) == call' = [Idle(result) EXCEPT !.onto = call.onto]
Unchanged == UNCHANGED <<co, ignored, origin>>

\* Ignored files are written over by whatever puts their path into the work tree.
Becomes(new) ==
  /\ co' = new
  /\ ignored' = [ignored EXCEPT !.kept = @ /\ ignored.path \notin new.work]
  /\ UNCHANGED origin

Locked(c) == [c EXCEPT !.busy = @ \union {"lock"}]

\* Not green: nothing, all of it, or either with a lock left.
Fails(new) == \E c \in {co, new} : Becomes(c) \/ Becomes(Locked(c))

At(tree) == [co EXCEPT !.head = tree, !.index = tree, !.work = tree]
Clean(c) == c.index = c.head /\ c.work = c.head

\* Mutant: the status labels are compared, not what the paths hold.
SameStatus(a, b) ==
  a.onBranch = b.onBranch /\ (a.index = a.head <=> b.index = b.head) /\ (a.work = a.index <=> b.work = b.index)

sameCheckout(a, b) ==
  a.head = b.head /\ a.onBranch = b.onBranch /\ a.index = b.index /\ a.work = b.work

-----------------------------------------------------------------------------
(* commitChanges                                                           *)

Commit ==
  /\ call.at = "commit"
  /\ Unchanged
  /\ \/ Return("commit-failed")
     \/ (co.busy # {} \/ "conflict" \in co.index) /\ Return("dirty-worktree")
     \/ /\ co.busy = {} /\ "conflict" \notin co.index
        /\ IF "mine" \in co.work \ co.head
           THEN call' = [call EXCEPT !.at = "add", !.before = co]
           ELSE Return("nothing-to-commit")

Add ==
  /\ call.at = "add"
  /\ LET added == [co EXCEPT !.index = (@ \ {"draft"}) \union {"mine"}]
     IN \/ Becomes(added) /\ Go("make")
        \/ "mine" \notin co.index /\ Fails(added) /\ Go("restore-head")

\* Mutant: everything that is staged is committed.
WithIndex(c) == [c EXCEPT !.head = @ \union c.index]

\* commit --only
Committed(c) == [c EXCEPT !.head = @ \union {"mine"}]

Make ==
  /\ call.at = "make"
  /\ \/ Becomes(Committed(co)) /\ Go("confirm")
     \/ Fails(Committed(co)) /\ Go("restore-head")

Confirm ==
  /\ call.at = "confirm"
  /\ Unchanged
  /\ \/ co.head # call.before.head /\ Return("green")
     \/ Go("restore-head")

\* restoreCheckout: each step that fails is a problem, and goes on.
RestoreHead ==
  /\ call.at = "restore-head"
  /\ LET back == [co EXCEPT !.head = call.before.head]
         problem == call' = [call EXCEPT !.at = "restore-index", !.sound = FALSE]
     IN \/ co = back /\ Go("restore-index") /\ Unchanged
        \/ co # back /\ Becomes(back) /\ Go("restore-index")
        \/ co # back /\ Fails(back) /\ problem
        \/ problem /\ Unchanged

RestoreIndex ==
  /\ call.at = "restore-index"
  /\ \/ Becomes([co EXCEPT !.index = call.before.index]) /\ Go("restored")
     \/ Unchanged /\ call' = [call EXCEPT !.at = "restored", !.sound = FALSE]

Restored ==
  /\ call.at = "restored"
  /\ Unchanged
  /\ \/ call.sound /\ sameCheckout(call.before, co) /\ Return("commit-failed")
     \/ Return("cleanup-unproven")

-----------------------------------------------------------------------------
(* rebaseBranch                                                            *)

Rebase ==
  /\ call.at = "rebase"
  /\ Unchanged
  /\ \/ Return("rebase-failed")
     \/ (co.busy # {} \/ ~Clean(co)) /\ Return("dirty-worktree")
     \/ co.busy = {} /\ Clean(co) /\ ~co.onBranch /\ Return("invalid-input")
     \/ /\ co.busy = {} /\ Clean(co) /\ co.onBranch
        /\ \E declared \in BOOLEAN :
             call' = [call EXCEPT !.at = "collide", !.before = co, !.onto = origin,
                                  !.generated = declared]

\* Mutant: ignored files are not looked for.
CollidesNever == FALSE

\* An ignored file that the base tracks.
Collides == ignored.path \in call.onto

Collide ==
  /\ call.at = "collide"
  /\ Unchanged
  /\ \/ Return("rebase-failed")
     \/ Collides /\ Return("dirty-worktree")
     \/ ~Collides /\ Go("run")

\* Mutant: the branch is rebased onto the ref, wherever it is by now.
OntoRef == origin

\* The commit that was resolved: another lane may fetch meanwhile.
Onto == call.onto

Rebased == At(Onto \union call.before.head)
Stopped == [co EXCEPT !.head = Onto, !.index = Onto \union {"conflict"}, !.work = Onto \union {"conflict"},
                      !.busy = @ \union {"rebase"}, !.onBranch = FALSE]

Run ==
  /\ call.at = "run"
  /\ \/ Becomes(Rebased) /\ Go("verify")
     \/ /\ call.before.head # {} /\ ~(Onto \subseteq call.before.head)
        /\ Becomes(Stopped)
        /\ IF call.generated THEN Go("resolve") ELSE call' = [call EXCEPT !.at = "abort", !.why = "rebase-conflict"]
     \/ (Fails(Rebased) \/ Fails(Stopped)) /\ call' = [call EXCEPT !.at = "abort", !.why = "rebase-failed"]

\* It exited 0: what cannot be proved is reported, not undone.
Verify ==
  /\ call.at = "verify"
  /\ Unchanged
  /\ \/ Clean(co) /\ co.busy = {} /\ co.onBranch /\ call.onto \subseteq co.head /\ Return("green")
     \/ Return("unverified")

UnderWay == "rebase" \in co.busy
Aborted == [At(call.before.head) EXCEPT !.busy = @ \ {"rebase"}, !.onBranch = TRUE]

\* The abort's own result is not looked at.
TryAbort(next) ==
  \/ ~UnderWay /\ Unchanged /\ Go(next)
  \/ UnderWay /\ (Becomes(Aborted) \/ Fails(Aborted)) /\ Go(next)

Abort == call.at = "abort" /\ TryAbort("undo")

\* git may have finished although it was reported to fail.
Undo ==
  /\ call.at = "undo"
  /\ LET moved == co.busy = {} /\ Clean(co) /\ co.onBranch /\ co.head # call.before.head
         back == At(call.before.head)
     IN \/ Go("judge") /\ Unchanged
        \/ moved /\ (Becomes(back) \/ Fails(back)) /\ Go("judge")

Judge ==
  /\ call.at = "judge"
  /\ Unchanged
  /\ \/ /\ co.busy = {} /\ sameCheckout(call.before, co)
        /\ Return(call.why) \/ Return("rebase-failed")
     \/ Return("cleanup-unproven")

\* Conflicts in declared paths alone take the base's side; any git command of it may fail.
Resolve ==
  /\ call.at = "resolve"
  /\ LET done == [Rebased EXCEPT !.busy = @ \ {"rebase"}, !.onBranch = TRUE]
     IN \/ Becomes(done) /\ call' = [call EXCEPT !.at = "regenerate", !.new = done.head]
        \/ Fails(done) /\ \E why \in {"rebase-failed", "rebase-conflict"} :
                            call' = [call EXCEPT !.at = "back", !.why = why]

\* The declared command runs in a scratch worktree, which has to go again.
Regenerate ==
  /\ call.at = "regenerate"
  /\ Unchanged
  /\ \/ \E made \in SUBSET {"generated"} : call' = [call EXCEPT !.at = "land", !.new = @ \union made]
     \/ \E why \in {"rebase-failed", "rebase-conflict", "cleanup-unproven"} :
          call' = [call EXCEPT !.at = "back", !.why = why]

\* A file the command added may be an ignored one here.
Land ==
  /\ call.at = "land"
  /\ LET landed == At(call.new)
         why(w) == call' = [call EXCEPT !.at = "back", !.why = w]
     IN \/ ignored.path \in call.new \ co.head /\ why("dirty-worktree") /\ Unchanged
        \/ ignored.path \notin call.new \ co.head /\ Becomes(landed) /\ Go("landed")
        \/ ignored.path \notin call.new \ co.head /\ Fails(landed) /\ why("rebase-failed")
        \/ why("rebase-failed") /\ Unchanged

Landed ==
  /\ call.at = "landed"
  /\ Unchanged
  /\ \/ co = [At(call.new) EXCEPT !.busy = {}, !.onBranch = TRUE] /\ Return("green")
     \/ call' = [call EXCEPT !.at = "back", !.why = "rebase-failed"]

Back == call.at = "back" /\ TryAbort("reset")

\* reset --hard, whose result is not looked at either, and clean.
ResetHard ==
  /\ call.at = "reset"
  /\ LET back == At(call.before.head) IN Becomes(back) \/ Fails(back)
  /\ Go("proven")

Proven ==
  /\ call.at = "proven"
  /\ Unchanged
  /\ \/ /\ co.busy = {} /\ sameCheckout(call.before, co)
        /\ Return(call.why)
     \/ Return("cleanup-unproven")

-----------------------------------------------------------------------------
\* Another lane fetches: origin/<base> is one ref for all.
Fetch ==
  /\ call.at # "idle"
  /\ \E change \in Upstream :
       /\ change = "later" => "up" \in origin
       /\ origin' = origin \union {change}
  /\ origin' # origin
  /\ UNCHANGED <<co, ignored, call>>

Git ==
  \/ Commit \/ Add \/ Make \/ Confirm \/ RestoreHead \/ RestoreIndex \/ Restored
  \/ Rebase \/ Collide \/ Run \/ Verify \/ Abort \/ Undo \/ Judge
  \/ Resolve \/ Regenerate \/ Land \/ Landed \/ Back \/ ResetHard \/ Proven
=============================================================================
