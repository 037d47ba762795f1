---------------------------- MODULE RepositoryRun ----------------------------
(***************************************************************************)
(* run_cmd of bin/codemason.rs and repo.rs: what `codemason run` does to   *)
(* the repository it is pointed at, for several runs and a user at work in *)
(* one clone at once.  Every step is one git command (or one stretch       *)
(* between two), and every git command may fail.  The agent loop is its    *)
(* exit and the edits it makes (AgentLoop has the rest); an edit is its    *)
(* author and the section of the repository it is in.                      *)
(***************************************************************************)
EXTENDS Naturals, FiniteSets

CONSTANTS
  Runs,       \* processes
  User,       \* whoever else works in the clone
  Sections,   \* parts of the repository --repo can name
  Section,    \* the one each run is pointed at
  BranchOf,   \* the branch of each run (--branch, or its run id)
  Trunk,      \* the branch checked out at first
  Main,       \* the clone's own working tree
  LoopExits,  \* how an agent loop can end, as exit codes
  Unknown     \* no exit yet

ASSUME RepositoryAssumption ==
  /\ User \notin Runs /\ Main \notin Runs
  /\ Section \in [Runs -> Sections]
  /\ \A r \in Runs : BranchOf[r] # Trunk
  /\ {Unknown, "unrecoverable", "gated"} \cap LoopExits = {}

VARIABLES
  mode,      \* how each run was started: "worktree", "inplace" or "dry"
  branches,  \* the edits committed on each branch
  trees,     \* the working trees: checked-out branch, edits unstaged and staged
  pc,        \* where each run is
  left,      \* why its loop ended
  commit,    \* what commit_all returned: "none", "made" or "error"
  holds,     \* what the commit it returned holds
  exit,      \* its exit code
  base,      \* history: what the branch of each run that created one held
  made       \* history: who has made an edit

postflight == <<commit, holds>>
vars == <<mode, branches, trees, pc, left, postflight, exit, base, made>>

Isolated == {r \in Runs : mode[r] = "worktree"}
Dry == {r \in Runs : mode[r] = "dry"}

Authors == Runs \cup {User}
Edits == [by : Authors, in : Sections]
Clean == {}
InClone(r) == Main
TreeOf(r) == IF r \in Isolated THEN r ELSE Main
In(edits, section) == {e \in edits : e.in = section}
Held(t) == trees[t].unstaged \cup trees[t].staged
HeadCommit(t) == branches[trees[t].head]

Only(x, v) == [y \in {x} |-> v]
With(f, x, v) == [y \in DOMAIN f \cup {x} |-> IF y \in DOMAIN f THEN f[y] ELSE v]

Goto(r, where) == pc' = [pc EXCEPT ![r] = where]
Exit(r, code) ==
  /\ pc' = [pc EXCEPT ![r] = "exited"]
  /\ exit' = [exit EXCEPT ![r] = code]

Init ==
  /\ mode \in [Runs -> {"worktree", "inplace", "dry"}]
  /\ branches = Only(Trunk, {})
  /\ trees = Only(Main, [head |-> Trunk, unstaged |-> {}, staged |-> {}])
  /\ pc = [r \in Runs |-> "preflight"]
  /\ left = [r \in Runs |-> Unknown]
  /\ commit = [r \in Runs |-> "none"]
  /\ exit = [r \in Runs |-> Unknown]
  /\ holds = [r \in Runs |-> {}]
  /\ base = <<>>
  /\ made = {}

-----------------------------------------------------------------------------
(* Before the loop.                                                        *)

PreflightPasses(r) ==
  /\ pc[r] = "preflight"
  /\ r \notin Dry => In(Held(Main), Section[r]) = Clean
  /\ Goto(r, "configure")
  /\ UNCHANGED <<mode, branches, trees, left, postflight, exit, base, made>>

\* Not a git worktree, a failed `git status`, or a section that is not clean.
PreflightRefuses(r) ==
  /\ pc[r] = "preflight" /\ r \notin Dry
  /\ Exit(r, "unrecoverable")
  /\ UNCHANGED <<mode, branches, trees, left, postflight, base, made>>

\* Configuration, model, credentials, catalogue, gate and event log, in the
\* order of the code: any of them ends the run with its own exit code.
Configure(r) ==
  /\ pc[r] = "configure"
  /\ \/ Goto(r, IF r \in Dry THEN "index" ELSE "branch") /\ UNCHANGED exit
     \/ \E code \in {"unrecoverable", "provider", "gated"} : Exit(r, code)
  /\ UNCHANGED <<mode, branches, trees, left, postflight, base, made>>

NewBranch(r) ==
  /\ BranchOf[r] \notin DOMAIN branches
  /\ branches' = With(branches, BranchOf[r], HeadCommit(Main))
  /\ base' = With(base, r, HeadCommit(Main))

AddWorktreeMovingHead(r) ==
  /\ pc[r] = "branch" /\ r \in Isolated
  /\ NewBranch(r)
  /\ trees' = With([trees EXCEPT ![Main].head = BranchOf[r]], r,
                     [head |-> BranchOf[r], unstaged |-> {}, staged |-> {}])
  /\ Goto(r, "settle")
  /\ UNCHANGED <<mode, left, postflight, exit, made>>

\* git worktree add -b <branch> <at> HEAD: the edits of the clone stay there.
AddWorktree(r) ==
  /\ pc[r] = "branch" /\ r \in Isolated
  /\ NewBranch(r)
  /\ trees' = With(trees, r, [head |-> BranchOf[r], unstaged |-> {}, staged |-> {}])
  /\ Goto(r, "settle")
  /\ UNCHANGED <<mode, left, postflight, exit, made>>

\* git checkout -b moves the one HEAD of the clone.
CreateBranch(r) ==
  /\ pc[r] = "branch" /\ r \notin Isolated
  /\ NewBranch(r)
  /\ trees' = [trees EXCEPT ![Main].head = BranchOf[r]]
  /\ Goto(r, "index")
  /\ UNCHANGED <<mode, left, postflight, exit, made>>

BranchFails(r) ==
  /\ pc[r] = "branch"
  /\ Exit(r, "unrecoverable")
  /\ UNCHANGED <<mode, branches, trees, left, postflight, base, made>>

\* The new tree's path is canonicalised behind the command that made it.
Settle(r) ==
  /\ pc[r] = "settle"
  /\ \/ Goto(r, "index") /\ UNCHANGED exit
     \/ Exit(r, "unrecoverable")
  /\ UNCHANGED <<mode, branches, trees, left, postflight, base, made>>

\* A failed build returns at once, past the teardown.
BuildIndex(r) ==
  /\ pc[r] = "index"
  /\ \/ Goto(r, "loop") /\ UNCHANGED exit
     \/ Exit(r, "unrecoverable")
  /\ UNCHANGED <<mode, branches, trees, left, postflight, base, made>>

-----------------------------------------------------------------------------
(* The loop and what follows it.                                           *)

Edit(r) ==
  /\ pc[r] = "loop" /\ r \notin Dry \cup made
  /\ trees' = [trees EXCEPT ![TreeOf(r)].unstaged =
                 @ \cup {[by |-> r, in |-> Section[r]]}]
  /\ made' = made \cup {r}
  /\ UNCHANGED <<mode, branches, pc, left, postflight, exit, base>>

LoopEnds(r) ==
  /\ pc[r] = "loop"
  /\ \E why \in LoopExits : left' = [left EXCEPT ![r] = why]
  /\ Goto(r, IF r \in Dry THEN "report" ELSE "add")
  /\ UNCHANGED <<mode, branches, trees, postflight, exit, base, made>>

\* git add -A -- . stages the section the run works in.
Add(r) ==
  LET t == TreeOf(r)
      mine == In(trees[t].unstaged, Section[r])
  IN  /\ pc[r] = "add"
      /\ trees' = [trees EXCEPT ![t].unstaged = @ \ mine,
                                ![t].staged = @ \cup mine]
      /\ Goto(r, "diff")
      /\ UNCHANGED <<mode, branches, left, postflight, exit, base, made>>

\* git diff --cached names what is staged anywhere in the tree.
Diff(r) ==
  /\ pc[r] = "diff"
  /\ Goto(r, IF trees[TreeOf(r)].staged = {} THEN "teardown" ELSE "commit")
  /\ UNCHANGED <<mode, branches, trees, left, postflight, exit, base, made>>

\* git commit takes all that is staged; it refuses to commit nothing.
Commit(r) ==
  LET t == TreeOf(r)
  IN  /\ pc[r] = "commit" /\ trees[t].staged # {}
      /\ branches' = [branches EXCEPT ![trees[t].head] = @ \cup trees[t].staged]
      /\ trees' = [trees EXCEPT ![t].staged = {}]
      /\ Goto(r, "sha")
      /\ UNCHANGED <<mode, left, postflight, exit, base, made>>

\* git rev-parse HEAD: whatever HEAD is by now.
ReadSha(r) ==
  /\ pc[r] = "sha"
  /\ commit' = [commit EXCEPT ![r] = "made"]
  /\ holds' = [holds EXCEPT ![r] = HeadCommit(TreeOf(r))]
  /\ Goto(r, "teardown")
  /\ UNCHANGED <<mode, branches, trees, left, exit, base, made>>

\* Any of the four commands fails: the error is kept, the teardown still runs.
CommitFails(r) ==
  /\ pc[r] \in {"add", "diff", "commit", "sha"}
  /\ commit' = [commit EXCEPT ![r] = "error"]
  /\ Goto(r, "teardown")
  /\ UNCHANGED <<mode, branches, trees, left, holds, exit, base, made>>

TearDownMain(r) ==
  /\ pc[r] = "teardown"
  /\ trees' = [trees EXCEPT ![Main].unstaged = {}, ![Main].staged = {}]
  /\ Goto(r, "report")
  /\ UNCHANGED <<mode, branches, left, postflight, exit, base, made>>

TearDownOnlyWorktrees(r) ==
  /\ pc[r] = "teardown" /\ r \in Isolated
  /\ trees' = [t \in DOMAIN trees \ {r} |-> trees[t]]
  /\ Goto(r, "report")
  /\ UNCHANGED <<mode, branches, left, postflight, exit, base, made>>

\* git worktree remove --force; a failure is a warning.
TearDown(r) ==
  /\ pc[r] = "teardown"
  /\ \/ UNCHANGED trees
     \/ r \in Isolated /\ trees' = [t \in DOMAIN trees \ {r} |-> trees[t]]
  /\ Goto(r, "report")
  /\ UNCHANGED <<mode, branches, left, postflight, exit, base, made>>

ReportLoopExit(r) ==
  /\ pc[r] = "report"
  /\ Exit(r, left[r])
  /\ UNCHANGED <<mode, branches, trees, left, postflight, base, made>>

Report(r) ==
  /\ pc[r] = "report"
  /\ Exit(r, IF commit[r] = "error" THEN "unrecoverable" ELSE left[r])
  /\ UNCHANGED <<mode, branches, trees, left, postflight, base, made>>

Kill(r) ==
  /\ pc[r] # "exited" /\ pc[r] # "killed"
  /\ Goto(r, "killed")
  /\ UNCHANGED <<mode, branches, trees, left, postflight, exit, base, made>>

\* Somebody edits a file of the clone, and may stage it.
UserEdits(section, staging) ==
  LET edit == [by |-> User, in |-> section]
  IN  /\ User \notin made
      /\ trees' = IF staging
                  THEN [trees EXCEPT ![Main].staged = @ \cup {edit}]
                  ELSE [trees EXCEPT ![Main].unstaged = @ \cup {edit}]
      /\ made' = made \cup {User}
      /\ UNCHANGED <<mode, branches, pc, left, postflight, exit, base>>

RunStep(r) ==
  \/ PreflightPasses(r) \/ PreflightRefuses(r) \/ Configure(r)
  \/ AddWorktree(r) \/ CreateBranch(r) \/ BranchFails(r) \/ Settle(r)
  \/ BuildIndex(r) \/ LoopEnds(r)
  \/ Add(r) \/ Diff(r) \/ Commit(r) \/ ReadSha(r) \/ CommitFails(r)
  \/ TearDown(r) \/ Report(r)

Next ==
  \/ \E r \in Runs : RunStep(r) \/ Edit(r) \/ Kill(r)
  \/ \E section \in Sections, staging \in BOOLEAN : UserEdits(section, staging)

\* A run goes on by itself; its git commands return and its loop ends
\* (AgentLoop!RunReturns).  Nobody has to edit, and nothing has to fail.
Spec == Init /\ [][Next]_vars /\ \A r \in Runs : WF_vars(RunStep(r))

-----------------------------------------------------------------------------
(* Properties.                                                             *)

Where == {"preflight", "configure", "branch", "settle", "index", "loop",
          "add", "diff", "commit", "sha", "teardown", "report", "exited",
          "killed"}
Codes == LoopExits \cup {"unrecoverable", "provider", "gated"}

\* A tree has a branch of the repository checked out, and a run between its
\* branch step and its teardown has the tree it works in.
TypeOK ==
  /\ \A b \in DOMAIN branches : branches[b] \subseteq Edits
  /\ Main \in DOMAIN trees /\ DOMAIN trees \subseteq Isolated \cup {Main}
  /\ \A t \in DOMAIN trees :
       /\ trees[t].head \in DOMAIN branches
       /\ trees[t].unstaged \subseteq Edits /\ trees[t].staged \subseteq Edits
  /\ pc \in [Runs -> Where]
  /\ \A r \in Runs :
       /\ left[r] \in Codes \cup {Unknown} /\ exit[r] \in Codes \cup {Unknown}
       /\ commit[r] \in {"none", "made", "error"} /\ holds[r] \subseteq Edits
       /\ pc[r] \in {"loop", "add", "diff", "commit", "sha", "teardown"}
            => TreeOf(r) \in DOMAIN trees

\* The work of an isolated run is on its own branch and nobody else's is,
\* beyond what the clone's HEAD held when the worktree was added: the point of
\* a worktree (repo.rs, "Why worktree isolation exists").
IsolatedBranchHoldsOwnWork ==
  \A r \in Isolated \cap DOMAIN base :
    branches[BranchOf[r]] \ base[r] \subseteq {[by |-> r, in |-> Section[r]]}

\* The commit an isolated run reports is what its branch holds, and an isolated
\* run that exits with anything but an error has left none of its edits behind:
\* the supervisor merges the branch on the strength of the report.
ReportIsTrue ==
  \A r \in Isolated : pc[r] = "exited" =>
    /\ commit[r] = "made" => holds[r] = branches[BranchOf[r]]
    /\ exit[r] # "unrecoverable" /\ r \in made =>
         [by |-> r, in |-> Section[r]] \in branches[BranchOf[r]]

\* An edit is in a tree or on a branch, except the edit of an isolated run that
\* reported an error: nothing here throws away what someone else wrote, in
\* whatever order runs, a user, failures and kills come.
NobodysWorkIsLost ==
  \A a \in made :
    \/ \E b \in DOMAIN branches : \E e \in branches[b] : e.by = a
    \/ \E t \in DOMAIN trees : \E e \in Held(t) : e.by = a
    \/ a \in Isolated /\ commit[a] = "error"

\* An isolated run never moves the clone's HEAD and never touches its edits; a
\* dry run changes nothing anywhere (repo.rs, `preflight`).
IsolatedRunLeavesTheCloneAlone ==
  [][\A r \in Isolated \cup Dry :
       pc'[r] # pc[r] =>
         /\ trees'[Main] = trees[Main]
         /\ r \in Dry => branches' = branches /\ trees' = trees]_vars

\* Every run that is not killed exits.
EveryRunExits == <>(\A r \in Runs : pc[r] \in {"exited", "killed"})

\* bin/codemason.rs:212: "the commit lives on the branch, which outlives the
\* tree", so the worktree may go "whether or not the commit succeeded".
WorkOutlivesTheTree ==
  \A r \in made \cap Runs :
    \/ \E b \in DOMAIN branches : \E e \in branches[b] : e.by = r
    \/ \E t \in DOMAIN trees : \E e \in Held(t) : e.by = r
=============================================================================
