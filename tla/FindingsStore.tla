---------------------------- MODULE FindingsStore ---------------------------
(***************************************************************************)
(* watchdog:findings:latest and watchdog:dismissed, and everyone who reads *)
(* and writes them: a scan (router.py and scheduler.py share the sequence, *)
(* state.py stores the result), the dismiss, undismiss and reset handlers  *)
(* of router.py, create_bug of api/jira.py, and the scheduler's automatic  *)
(* bugs.                                                                   *)
(*                                                                         *)
(* The findings are one JSON value: every writer reads it whole, edits its *)
(* copy and writes it back whole, with awaits between.  Nothing but the    *)
(* scan lock orders the writers, and only scans take that.                 *)
(***************************************************************************)
EXTENDS Naturals, FiniteSets

CONSTANTS
    F,          \* fingerprints
    Handlers,   \* API requests in progress at one time
    MaxBugs,    \* bound: automatic bugs for one spell of a finding
    NoFinding   \* no fingerprint

ASSUME FindingsStoreAssumption == MaxBugs \in Nat \ {0} /\ NoFinding \notin F

VARIABLES
    findings,   \* the stored value: a status per fingerprint, and the linked ones
    dismissed,  \* the fields of the watchdog:dismissed hash
    scan,       \* the scan in progress
    handler,    \* each request in progress
    bugs,       \* history: automatic bugs since the finding last appeared (those
                \* of a scan that a reset overtook not counted)
    issues,     \* history: the fingerprints with a Jira issue of any origin
    fresh,      \* history: reset since the last scan compared its findings
    clobbered   \* history: some write replaced a value it was not made from

vars == <<findings, dismissed, scan, handler, bugs, issues, fresh, clobbered>>

Statuses == {"absent", "new", "ongoing", "dismissed"}
Present(blob, f) == blob.status[f] # "absent"
Blob == {b \in [status : [F -> Statuses], linked : SUBSET F] :
            \A f \in b.linked : Present(b, f)}
Empty == [status |-> [f \in F |-> "absent"], linked |-> {}]

\* Mutant: a link to a finding that is not stored.
LinkAlways(blob, f) == [blob EXCEPT !.linked = @ \cup {f}]

\* A link is part of its finding's entry.
Mark(blob, f, s) == [blob EXCEPT !.status[f] = s]
Link(blob, f) == [blob EXCEPT !.linked = IF Present(blob, f) THEN @ \cup {f} ELSE @]

NoScan == [pc |-> "idle", found |-> {}, new |-> {}, copy |-> Empty]
NoRequest == [pc |-> "idle", fp |-> NoFinding, copy |-> Empty]

TypeOK ==
    /\ findings \in Blob
    /\ dismissed \subseteq F
    /\ scan \in [pc : {"idle", "triage", "diff", "read", "write", "jira",
                       "jiraRead", "jiraWrite"},
                 found : SUBSET F, new : SUBSET F, copy : Blob]
    /\ handler \in [Handlers -> [pc : {"idle", "dismissWrite", "dismissHash",
                                      "undismissWrite", "undismissHash",
                                      "bugRead", "bugWrite"},
                                fp : F \cup {NoFinding}, copy : Blob]]
    /\ bugs \in [F -> 0..MaxBugs]
    /\ issues \subseteq F
    /\ fresh \in BOOLEAN
    /\ clobbered \in BOOLEAN

Init ==
    /\ findings = Empty /\ dismissed = {}
    /\ scan = NoScan /\ handler = [h \in Handlers |-> NoRequest]
    /\ bugs = [f \in F |-> 0] /\ issues = {} /\ fresh = FALSE
    /\ clobbered = FALSE

-----------------------------------------------------------------------------
(* Writing the value back: everything stored since the copy was read is     *)
(* replaced by it.                                                         *)

WriteBack(copy, value) ==
    /\ findings' = value
    /\ clobbered' = (clobbered \/ copy # findings)

-----------------------------------------------------------------------------
(* The scan.                                                               *)

\* run_all_checks finds something; what is dismissed by now is filtered out.
Detect ==
    /\ scan.pc = "idle"
    /\ \E d \in SUBSET F :
          scan' = [NoScan EXCEPT !.pc = "triage", !.found = d \ dismissed]
    /\ UNCHANGED <<findings, dismissed, handler, bugs, issues, fresh, clobbered>>

\* Triage dismisses some of it for good (none at all in a deep scan).
Triage ==
    /\ scan.pc = "triage"
    /\ \E a \in SUBSET scan.found :
          /\ dismissed' = dismissed \cup a
          /\ scan' = [scan EXCEPT !.pc = "diff", !.found = @ \ a]
    /\ UNCHANGED <<findings, handler, bugs, issues, fresh, clobbered>>

\* Mutant: everything found counts as new.
DiffAllNew ==
    /\ scan.pc = "diff"
    /\ scan' = [scan EXCEPT !.pc = "read", !.new = scan.found]
    /\ fresh' = FALSE
    /\ UNCHANGED <<findings, dismissed, handler, bugs, issues, clobbered>>

\* get_previous_findings and compute_diff; the investigations follow, and the
\* diff is kept over all of them.
Diff ==
    /\ scan.pc = "diff"
    /\ scan' = [scan EXCEPT !.pc = "read",
                            !.new = {f \in scan.found : ~Present(findings, f)}]
    /\ fresh' = FALSE
    /\ UNCHANGED <<findings, dismissed, handler, bugs, issues, clobbered>>

\* store_run_result reads the findings again, for the links...
StoreRead ==
    /\ scan.pc = "read"
    /\ scan' = [scan EXCEPT !.pc = "write", !.copy = findings]
    /\ UNCHANGED <<findings, dismissed, handler, bugs, issues, fresh, clobbered>>

\* Mutant: the links of the previous run are not carried over.
StoredUnlinked(found, new, copy) ==
    [status |-> [f \in F |-> IF f \notin found THEN "absent"
                             ELSE IF f \in new THEN "new" ELSE "ongoing"],
     linked |-> {}]

\* The value store_run_result writes.
Stored(found, new, copy) ==
    [status |-> [f \in F |-> IF f \notin found THEN "absent"
                             ELSE IF f \in new THEN "new" ELSE "ongoing"],
     linked |-> copy.linked \cap found]

\* ... and, some awaits later, replaces them.  A finding that is gone starts a
\* new spell when it comes back.
StoreWrite ==
    /\ scan.pc = "write"
    /\ WriteBack(scan.copy, Stored(scan.found, scan.new, scan.copy))
    /\ bugs' = [f \in F |-> IF f \in scan.found THEN bugs[f] ELSE 0]
    /\ \/ scan' = NoScan
       \/ scan' = [scan EXCEPT !.pc = "jira", !.copy = Empty]
    /\ UNCHANGED <<dismissed, handler, issues, fresh>>

\* _auto_create_jira_bugs, one new finding: skipped or refused, or created (and
\* found is then the finding at hand).
JiraPost ==
    /\ scan.pc = "jira"
    /\ \E f \in scan.new :
          \/ /\ scan' = [scan EXCEPT !.new = @ \ {f}]
             /\ UNCHANGED <<bugs, issues, clobbered>>
          \/ /\ bugs[f] < MaxBugs
             /\ bugs' = [bugs EXCEPT ![f] = IF fresh THEN @ ELSE @ + 1]
             /\ issues' = issues \cup {f}
             /\ scan' = [scan EXCEPT !.pc = "jiraRead", !.found = {f}, !.new = @ \ {f}]
    /\ UNCHANGED <<findings, dismissed, handler, fresh, clobbered>>

JiraRead ==
    /\ scan.pc = "jiraRead"
    /\ \/ scan' = [scan EXCEPT !.pc = "jiraWrite", !.copy = findings]
       \/ findings = Empty /\ scan' = [scan EXCEPT !.pc = "jira"]
    /\ UNCHANGED <<findings, dismissed, handler, bugs, issues, fresh, clobbered>>

JiraWrite ==
    /\ scan.pc = "jiraWrite"
    /\ \E f \in scan.found : WriteBack(scan.copy, Link(scan.copy, f))
    /\ scan' = [scan EXCEPT !.pc = "jira", !.copy = Empty]
    /\ UNCHANGED <<dismissed, handler, bugs, issues, fresh>>

\* create_bug keeps a failure to store to itself: the issue exists, the link is
\* not made, and the next finding follows.
JiraFails ==
    /\ scan.pc \in {"jiraRead", "jiraWrite"}
    /\ scan' = [scan EXCEPT !.pc = "jira", !.copy = Empty]
    /\ UNCHANGED <<findings, dismissed, handler, bugs, issues, fresh, clobbered>>

JiraDone ==
    /\ scan.pc = "jira" /\ scan.new = {}
    /\ scan' = NoScan
    /\ UNCHANGED <<findings, dismissed, handler, bugs, issues, fresh, clobbered>>

\* Cancelled, failed, or the process died: what is written stays written.
Abort ==
    /\ scan.pc # "idle"
    /\ scan' = NoScan
    /\ UNCHANGED <<findings, dismissed, handler, bugs, issues, fresh, clobbered>>

-----------------------------------------------------------------------------
(* The requests.                                                           *)

Request(h, pc, f, copy) ==
    handler' = [handler EXCEPT ![h] = [pc |-> pc, fp |-> f, copy |-> copy]]
Done(h) == handler' = [handler EXCEPT ![h] = NoRequest]

\* dismiss_finding and undismiss_finding: not_found unless it is stored now.
EditRead(h) ==
    /\ handler[h].pc = "idle"
    /\ \E f \in F, pc \in {"dismissWrite", "undismissWrite"} :
          Present(findings, f) /\ Request(h, pc, f, findings)
    /\ UNCHANGED <<findings, dismissed, scan, bugs, issues, fresh, clobbered>>

DismissWrite(h) ==
    /\ handler[h].pc = "dismissWrite"
    /\ WriteBack(handler[h].copy, Mark(handler[h].copy, handler[h].fp, "dismissed"))
    /\ Request(h, "dismissHash", handler[h].fp, Empty)
    /\ UNCHANGED <<dismissed, scan, bugs, issues, fresh>>

DismissHash(h) ==
    /\ handler[h].pc = "dismissHash"
    /\ dismissed' = dismissed \cup {handler[h].fp}
    /\ Done(h)
    /\ UNCHANGED <<findings, scan, bugs, issues, fresh, clobbered>>

UndismissWrite(h) ==
    /\ handler[h].pc = "undismissWrite"
    /\ WriteBack(handler[h].copy, Mark(handler[h].copy, handler[h].fp, "ongoing"))
    /\ Request(h, "undismissHash", handler[h].fp, Empty)
    /\ UNCHANGED <<dismissed, scan, bugs, issues, fresh>>

UndismissHash(h) ==
    /\ handler[h].pc = "undismissHash"
    /\ dismissed' = dismissed \ {handler[h].fp}
    /\ Done(h)
    /\ UNCHANGED <<findings, scan, bugs, issues, fresh, clobbered>>

\* create_bug: the issue exists in Jira before anything is recorded here.
BugPost(h) ==
    /\ handler[h].pc = "idle"
    /\ \E f \in F : Request(h, "bugRead", f, Empty) /\ issues' = issues \cup {f}
    /\ UNCHANGED <<findings, dismissed, scan, bugs, fresh, clobbered>>

\* With no value stored there is none to write back.
BugRead(h) ==
    /\ handler[h].pc = "bugRead"
    /\ \/ Request(h, "bugWrite", handler[h].fp, findings)
       \/ findings = Empty /\ Done(h)
    /\ UNCHANGED <<findings, dismissed, scan, bugs, issues, fresh, clobbered>>

\* Mutant: the link goes to every finding of the copy.
BugWriteAll(h) ==
    /\ handler[h].pc = "bugWrite"
    /\ WriteBack(handler[h].copy, [handler[h].copy EXCEPT
           !.linked = {f \in F : Present(handler[h].copy, f)}])
    /\ Done(h)
    /\ UNCHANGED <<dismissed, scan, bugs, issues, fresh>>

BugWrite(h) ==
    /\ handler[h].pc = "bugWrite"
    /\ WriteBack(handler[h].copy, Link(handler[h].copy, handler[h].fp))
    /\ Done(h)
    /\ UNCHANGED <<dismissed, scan, bugs, issues, fresh>>

\* The same failure in a request of its own: answered as if it had been stored.
BugFails(h) ==
    /\ handler[h].pc \in {"bugRead", "bugWrite"}
    /\ Done(h)
    /\ UNCHANGED <<findings, dismissed, scan, bugs, issues, fresh, clobbered>>

\* reset_state: one DELETE; dismissals and first_seen survive it.
Reset(h) ==
    /\ handler[h].pc = "idle"
    /\ findings' = Empty
    /\ fresh' = TRUE
    /\ bugs' = [f \in F |-> 0]
    /\ UNCHANGED <<dismissed, scan, handler, issues, clobbered>>

Next ==
    \/ Detect \/ Triage \/ Diff \/ StoreRead \/ StoreWrite
    \/ JiraPost \/ JiraRead \/ JiraWrite \/ JiraFails \/ JiraDone \/ Abort
    \/ \E h \in Handlers :
          \/ EditRead(h) \/ DismissWrite(h) \/ DismissHash(h)
          \/ UndismissWrite(h) \/ UndismissHash(h)
          \/ BugPost(h) \/ BugRead(h) \/ BugWrite(h) \/ BugFails(h)
          \/ Reset(h)

Spec == Init /\ [][Next]_vars
-----------------------------------------------------------------------------
(* Properties.                                                             *)

\* A link always leads to an issue that was created for this very finding.
LinkHasIssue ==
    /\ findings.linked \subseteq issues
    /\ scan.copy.linked \subseteq issues
    /\ \A h \in Handlers : handler[h].copy.linked \subseteq issues

\* A finding's link to its Jira issue is lost only to a write made from an
\* outdated copy, never to the sequence of scans and requests itself.
LinkKept ==
    [][~clobbered' =>
          \A f \in findings.linked : Present(findings', f) => f \in findings'.linked]_vars

\* "Auto-create Jira bugs for new findings": one bug for as long as a finding
\* keeps being found, unless some write was made from an outdated copy.
OneBug == ~clobbered => \A f \in F : bugs[f] <= 1

\* reset_state: "Next scan will treat all findings as new."
ResetMeansNew ==
    [][fresh /\ scan.pc = "diff" /\ scan'.pc = "read" => scan'.new = scan'.found]_vars
=============================================================================
