---------------------------- MODULE PermissionDesk ----------------------------
(***************************************************************************)
(* A change on its way to a write: its author goes on touching paths, the  *)
(* operator sets and clears the stop, the protected-path policy file is    *)
(* there or not, and the permission is asked again and again, each time    *)
(* with the policy and the environment of that moment (decideWrite reads   *)
(* both on every call).                                                    *)
(***************************************************************************)
EXTENDS Permissions

CONSTANTS
  Modes,      \* spellings of the mode an asker may use
  Pool,       \* paths the change may touch, each written as its glob
  MaxPaths    \* bound: paths per change

ASSUME DeskAssumption == MaxPaths \in Nat

VARIABLES
  request,    \* mode, write class and executeWrite of the change
  paths,      \* its changed paths, in the order they were touched
  stop,       \* ADMISSORIUM_WRITE_DISABLED is exactly "true"
  policyFile, \* policies/protected-paths.json exists
  answer      \* the last decision, with what it was computed from

vars == <<request, paths, stop, policyFile, answer>>

(* policies/protected-paths.json: no freeze class, no current/ glob.        *)
FileProtectedClasses ==
  << Class("constitutional-law", {"law/**", "laws/**"}),
     Class("accepted-state", {"epochs/current/**", "state/current/**"}),
     Class("authority", {"authorities/current/**"}),
     Class("execution-receipts", {"receipts/current/**"}),
     Class("verification-results", {"verification/results/current/**"}),
     Class("terminal-recognition", {"recognitions/current/**"}),
     Class("terminal-recourse", {"recourse/current/**", "recourses/current/**"}),
     Class("claims", {"claims/current/**"}),
     Class("continuity-transfer", {"continuity/current/**", "transfer/current/**"}),
     Class("release-identity", {"LICENSE", "package.json", ".github/workflows/*release*"}),
     Class("governance-registries",
           {".github/GOVERNED_REPOS.txt", ".github/LICENSES.json",
            ".github/PACKAGES.json", ".github/REPO_CLASSES.json"}) >>

LoadProtectedPathsPolicy(file) ==
  IF file THEN FileProtectedClasses ELSE DefaultProtectedClasses

Requests == [mode : Modes, class : WriteClasses, execute : BOOLEAN]

NoAnswer ==
  [ asked |-> FALSE, paths |-> <<>>, stop |-> FALSE, file |-> FALSE,
    decision |-> "none", allowed |-> FALSE, matched |-> NoClass ]

Init ==
  /\ request \in Requests
  /\ paths = <<>>
  /\ stop \in BOOLEAN
  /\ policyFile \in BOOLEAN
  /\ answer = NoAnswer

TouchPath(p) ==
  /\ Len(paths) < MaxPaths
  /\ paths' = Append(paths, p)
  /\ UNCHANGED <<request, stop, policyFile, answer>>

ToggleStop ==
  /\ stop' = ~stop
  /\ UNCHANGED <<request, paths, policyFile, answer>>

TogglePolicyFile ==
  /\ policyFile' = ~policyFile
  /\ UNCHANGED <<request, paths, stop, answer>>

(* Mutant of AskDecideWrite: the reason is answered in place of decision.   *)
AskDecideWriteReason ==
  LET d == DecideWrite(WriteRequest(request.mode, request.class, paths, request.execute),
                       LoadedModes, LoadProtectedPathsPolicy(policyFile), stop)
  IN /\ answer' = [ asked |-> TRUE, paths |-> paths, stop |-> stop, file |-> policyFile,
                    decision |-> IF d.allowed THEN "ALLOWED" ELSE "PERMISSION_DENIED",
                    allowed |-> d.allowed, matched |-> d.matched ]
     /\ UNCHANGED <<request, paths, stop, policyFile>>

AskDecideWrite ==
  LET d == DecideWrite(WriteRequest(request.mode, request.class, paths, request.execute),
                       LoadedModes, LoadProtectedPathsPolicy(policyFile), stop)
  IN /\ answer' = [ asked |-> TRUE, paths |-> paths, stop |-> stop, file |-> policyFile,
                    decision |-> d.decision, allowed |-> d.allowed, matched |-> d.matched ]
     /\ UNCHANGED <<request, paths, stop, policyFile>>

Next ==
  \/ \E p \in Pool : TouchPath(p)
  \/ ToggleStop
  \/ TogglePolicyFile
  \/ AskDecideWrite

Spec == Init /\ [][Next]_vars

-----------------------------------------------------------------------------
Decisions ==
  {"none", "ALLOW", "DENY", "DENY_WRITE_DISABLED", "DENY_PROTECTED_PATH",
   "REQUIRES_GOVERNANCE_REVIEW"}

(* Type invariant. *)
TypeOK ==
  /\ request \in Requests
  /\ paths \in Seq(Pool) /\ Len(paths) <= MaxPaths
  /\ stop \in BOOLEAN /\ policyFile \in BOOLEAN
  /\ answer.asked \in BOOLEAN /\ answer.stop \in BOOLEAN /\ answer.file \in BOOLEAN
  /\ answer.paths \in Seq(Pool)
  /\ answer.decision \in Decisions /\ answer.allowed \in BOOLEAN

(* decideWrite never lets a change write that touches a protected path      *)
(* anywhere among its paths, whatever mode, spelling and executeWrite say:  *)
(* only local reports and the check run about it stay possible.             *)
ProtectedNeverWritten ==
  (\E i \in DOMAIN answer.paths :
     answer.allowed /\ IsProtected(answer.paths[i], LoadProtectedPathsPolicy(answer.file)))
    => request.class \in LocalClasses \cup {"CHECK_RUN"}

(* Under the stop decideWrite allows no write class at all, the repair      *)
(* classes that are missing from remoteWriteClasses included.               *)
StopDominates ==
  answer.stop => ~answer.allowed /\ answer.decision = "DENY_WRITE_DISABLED"

(* Three fields of one answer are computed apart, and the check-run writer  *)
(* reads only decision: what is allowed says ALLOW, an ALLOW that is not    *)
(* allowed lacks executeWrite only, a refusal that names protected paths    *)
(* comes with the class that matched.                                       *)
AnswersAreCoherent ==
  /\ answer.allowed => answer.decision = "ALLOW"
  /\ answer.decision = "ALLOW" => answer.allowed \/ ~request.execute
  /\ answer.decision = "REQUIRES_GOVERNANCE_REVIEW" => answer.matched = "governance-registries"
  /\ answer.decision = "DENY_PROTECTED_PATH"
       => answer.matched \notin {NoClass, "governance-registries"}

(* Asked again under the same stop and the same policy, a change that was   *)
(* refused is not allowed for having touched more paths.                    *)
MorePathsNeverAllow ==
  [][ answer.asked /\ answer'.stop = answer.stop /\ answer'.file = answer.file
        => (answer'.allowed => answer.allowed) ]_vars
=============================================================================
