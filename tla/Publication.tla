---------------------------- MODULE Publication ----------------------------
(***************************************************************************)
(* openPullRequest of crew/checks.mjs against a remote that others use     *)
(* too.  A push, an edit or a create is asked for and its own result is    *)
(* not believed: the remote is asked again.  A query may fail.             *)
(***************************************************************************)
EXTENDS Naturals, FiniteSets

VARIABLES
  remote,    \* the lane's branch there: "absent", "lane", "other" commits; its open pull requests
  pub,       \* the call under way: its place, what it found, what it returned
  standing   \* history: the pull requests open since before the call

publication == <<remote, pub, standing>>

\* An open pull request of the branch: its base and whose it is.
Request(base, by) == [base |-> base, by |-> by]
Bases == {"base", "another"}
Quiet(result) == [at |-> "idle", found |-> {}, result |-> result]

\* The branch may be there from an earlier call, or have commits the lane has not.
PublicationInit ==
  /\ \E branch \in {"absent", "lane", "other"}, open \in SUBSET {Request(b, "others") : b \in Bases} :
       /\ branch = "absent" => open = {}
       /\ remote = [branch |-> branch, open |-> open]
  /\ pub = Quiet("none")
  /\ standing = {}

Then(at) == pub' = [pub EXCEPT !.at = at]
Answer(result) == pub' = Quiet(result)
Ask == UNCHANGED <<remote, standing>>

-----------------------------------------------------------------------------
\* The checkout's branch and head are read.
OpenPullRequest ==
  /\ pub.at = "publish"
  /\ standing' = remote.open
  /\ UNCHANGED remote
  /\ Answer("push-unmeasured") \/ Then("query")

\* Mutant: only requests for the lane's base are asked for.
Ours(open) == {r \in open : r.base = "base"}

\* Every open request of the branch, whatever its base.
openPrs(open) == open

Query ==
  /\ pub.at = "query"
  /\ Ask
  /\ LET found == openPrs(remote.open)
     IN \/ Answer("pr-unmeasured")
        \/ /\ found = {} \/ \E r \in found : found = {r} /\ r.base = "base"
           /\ pub' = [pub EXCEPT !.at = "head", !.found = found]

RemoteHead ==
  /\ pub.at = "head"
  /\ Ask
  /\ Then("push") \/ (remote.branch = "lane" /\ Then("text"))

\* Never forced: commits the lane has not are not pushed over.
Push ==
  /\ pub.at = "push"
  /\ \/ UNCHANGED remote
     \/ remote.branch # "other" /\ remote' = [remote EXCEPT !.branch = "lane"]
  /\ Then("pushed") /\ UNCHANGED standing

Pushed ==
  /\ pub.at = "pushed"
  /\ Ask
  /\ Answer("push-unmeasured") \/ (remote.branch = "lane" /\ Then("text"))

\* The body of the request that was found, if anything came of it, is read back.
Edit ==
  /\ pub.at = "text" /\ pub.found # {}
  /\ Ask
  /\ Answer("pr-unmeasured") \/ Answer("green")

\* GitHub refuses a second open request of one branch for one base.
Create ==
  /\ pub.at = "text" /\ pub.found = {}
  /\ \/ UNCHANGED remote
     \/ /\ \A r \in remote.open : r.base # "base"
        /\ remote' = [remote EXCEPT !.open = @ \union {Request("base", "lane")}]
  /\ Then("created") /\ UNCHANGED standing

Created ==
  /\ pub.at = "created"
  /\ Ask
  /\ LET found == openPrs(remote.open)
     IN \/ Answer("pr-unmeasured")
        \/ (\E r \in found : found = {r} /\ r.base = "base") /\ Answer("green")

Publisher ==
  OpenPullRequest \/ Query \/ RemoteHead \/ Push \/ Pushed \/ Edit \/ Create \/ Created

-----------------------------------------------------------------------------
\* Others close or merge a request, open one, or push to the branch.
Others ==
  /\ \/ \E r \in remote.open :
          remote' = [remote EXCEPT !.open = @ \ {r}] /\ standing' = standing \ {r}
     \/ \E base \in Bases :
          /\ remote.branch # "absent" /\ \A r \in remote.open : r.base # base
          /\ remote' = [remote EXCEPT !.open = @ \union {Request(base, "others")}]
          /\ UNCHANGED standing
     \/ /\ remote.branch # "other"
        /\ remote' = [remote EXCEPT !.branch = "other"]
        /\ UNCHANGED standing
  /\ UNCHANGED pub
=============================================================================
