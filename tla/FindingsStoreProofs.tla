------------------------- MODULE FindingsStoreProofs ------------------------
(***************************************************************************)
(* Theorems about FindingsStore for any set of fingerprints, any number of *)
(* requests and any bound on automatic bugs.                               *)
(***************************************************************************)
EXTENDS FindingsStore, TLAPS

\* What Link, Mark and Stored make of a well-formed value is well formed, and
\* none of them removes a finding it was not asked to remove.
LEMMA EmptyType == Empty \in Blob
BY DEF Empty, Blob, Statuses, Present

LEMMA BlobParts ==
    ASSUME NEW b \in Blob
    PROVE  /\ b \in [status : [F -> Statuses], linked : SUBSET F]
           /\ b.status \in [F -> Statuses] /\ b.linked \in SUBSET F
           /\ \A f \in b.linked : Present(b, f)
<1>1. b \in [status : [F -> Statuses], linked : SUBSET F]
  BY DEF Blob
<1>2. b.status \in [F -> Statuses] /\ b.linked \in SUBSET F
  BY <1>1
<1> QED  BY <1>1, <1>2 DEF Blob

LEMMA LinkType ==
    ASSUME NEW b \in Blob, NEW f \in F
    PROVE  /\ Link(b, f) \in Blob
           /\ \A g \in F : Present(b, g) => Present(Link(b, f), g)
           /\ Link(b, f).linked \subseteq b.linked \cup {f}
           /\ b.linked \subseteq Link(b, f).linked
<1>0. /\ b \in [status : [F -> Statuses], linked : SUBSET F]
      /\ b.status \in [F -> Statuses] /\ b.linked \in SUBSET F
      /\ \A g \in b.linked : Present(b, g)
  BY BlobParts
<1> DEFINE n == IF Present(b, f) THEN b.linked \cup {f} ELSE b.linked
           v == [b EXCEPT !.linked = n]
<1>1. v = Link(b, f)
  BY DEF Link
<1>2. /\ n \in SUBSET F /\ b.linked \subseteq n /\ n \subseteq b.linked \cup {f}
      /\ \A g \in n : Present(b, g)
  BY <1>0
<1> HIDE DEF n
<1>3. /\ v \in [status : [F -> Statuses], linked : SUBSET F]
      /\ v.status = b.status /\ v.linked = n
  BY <1>0, <1>2
<1> HIDE DEF v
<1>4. \A g \in F : Present(v, g) <=> Present(b, g)
  BY <1>3 DEF Present
<1>5. v \in Blob
  BY <1>2, <1>3, <1>4 DEF Blob
<1> QED  BY <1>1, <1>2, <1>3, <1>4, <1>5

LEMMA MarkType ==
    ASSUME NEW b \in Blob, NEW f \in F, NEW s \in {"dismissed", "ongoing"}
    PROVE  /\ Mark(b, f, s) \in Blob
           /\ \A g \in F : Present(b, g) => Present(Mark(b, f, s), g)
           /\ Mark(b, f, s).linked = b.linked
<1>0. /\ b \in [status : [F -> Statuses], linked : SUBSET F]
      /\ b.status \in [F -> Statuses] /\ b.linked \in SUBSET F
      /\ \A g \in b.linked : Present(b, g)
  BY BlobParts
<1> DEFINE n == [b.status EXCEPT ![f] = s]
           v == [b EXCEPT !.status = n]
<1>1. v = Mark(b, f, s)
  BY DEF Mark
<1>2. n \in [F -> Statuses] /\ \A g \in F : n[g] = b.status[g] \/ n[g] # "absent"
  BY <1>0 DEF Statuses
<1> HIDE DEF n
<1>3. /\ v \in [status : [F -> Statuses], linked : SUBSET F]
      /\ v.status = n /\ v.linked = b.linked
  BY <1>0, <1>2
<1> HIDE DEF v
<1>4. \A g \in F : Present(b, g) => Present(v, g)
  BY <1>2, <1>3 DEF Present
<1>5. v \in Blob
  BY <1>0, <1>3, <1>4 DEF Blob
<1> QED  BY <1>1, <1>3, <1>4, <1>5

LEMMA StoredType ==
    ASSUME NEW b \in Blob, NEW found \in SUBSET F, NEW new \in SUBSET F
    PROVE  /\ Stored(found, new, b) \in Blob
           /\ \A g \in F : Present(Stored(found, new, b), g) <=> g \in found
           /\ Stored(found, new, b).linked = b.linked \cap found
<1> DEFINE st == [f \in F |-> IF f \notin found THEN "absent"
                             ELSE IF f \in new THEN "new" ELSE "ongoing"]
           v == [status |-> st, linked |-> b.linked \cap found]
<1>1. v = Stored(found, new, b)
  BY DEF Stored
<1>2. st \in [F -> Statuses] /\ \A g \in F : st[g] # "absent" <=> g \in found
  BY DEF Statuses
<1>3. b.linked \in SUBSET F
  BY BlobParts
<1> HIDE DEF st
<1>4. /\ v \in [status : [F -> Statuses], linked : SUBSET F]
      /\ v.status = st /\ v.linked = b.linked \cap found
  BY <1>2, <1>3
<1> HIDE DEF v
<1>5. \A g \in F : Present(v, g) <=> g \in found
  BY <1>2, <1>4 DEF Present
<1>6. v \in Blob
  BY <1>3, <1>4, <1>5 DEF Blob
<1> QED  BY <1>1, <1>4, <1>5, <1>6

-----------------------------------------------------------------------------
(* Types.                                                                  *)

ScanType ==
    [pc : {"idle", "triage", "diff", "read", "write", "jira", "jiraRead", "jiraWrite"},
     found : SUBSET F, new : SUBSET F, copy : Blob]
RequestType ==
    [pc : {"idle", "dismissWrite", "dismissHash", "undismissWrite",
           "undismissHash", "bugRead", "bugWrite"},
     fp : F \cup {NoFinding}, copy : Blob]

\* A request that is past its first step is about a finding.
Aimed == \A h \in Handlers : handler[h].pc # "idle" => handler[h].fp \in F

Typed == TypeOK /\ Aimed

LEMMA ScanParts ==
    ASSUME NEW s \in ScanType
    PROVE  /\ s.found \in SUBSET F /\ s.new \in SUBSET F /\ s.copy \in Blob
           /\ s.pc \in {"idle", "triage", "diff", "read", "write", "jira",
                        "jiraRead", "jiraWrite"}
BY DEF ScanType

LEMMA TypedInit == Init => Typed
<1> SUFFICES ASSUME Init PROVE Typed
  OBVIOUS
<1>1. Empty \in Blob
  BY EmptyType
<1>2. NoScan \in ScanType
  BY <1>1 DEF NoScan, ScanType
<1>3. NoRequest \in RequestType
  BY <1>1 DEF NoRequest, RequestType
<1>4. bugs \in [F -> 0..MaxBugs]
  BY FindingsStoreAssumption DEF Init
<1>5. handler \in [Handlers -> RequestType]
  BY <1>3 DEF Init
<1>6. \A h \in Handlers : handler[h].pc = "idle"
  BY DEF Init, NoRequest
<1> QED  BY <1>1, <1>2, <1>4, <1>5, <1>6 DEF Init, Typed, TypeOK, Aimed, ScanType, RequestType

\* What a request records of itself keeps its type.
LEMMA RequestTyped ==
    ASSUME Typed, NEW h \in Handlers, NEW f \in F, NEW copy \in Blob,
           NEW pc \in {"dismissWrite", "dismissHash", "undismissWrite",
                       "undismissHash", "bugRead", "bugWrite"},
           Request(h, pc, f, copy)
    PROVE  handler' \in [Handlers -> RequestType] /\ Aimed'
<1> DEFINE r == [pc |-> pc, fp |-> f, copy |-> copy]
<1>1. r \in RequestType /\ r.fp \in F
  BY DEF RequestType
<1> HIDE DEF r
<1>2. handler \in [Handlers -> RequestType]
  BY DEF Typed, TypeOK, RequestType
<1>3. handler' = [handler EXCEPT ![h] = r]
  BY DEF Request, r
<1>4. handler' \in [Handlers -> RequestType]
  BY <1>1, <1>2, <1>3
<1>5. Aimed'
  BY <1>1, <1>2, <1>3 DEF Typed, Aimed
<1> QED  BY <1>4, <1>5

LEMMA DoneTyped ==
    ASSUME Typed, NEW h \in Handlers, Done(h)
    PROVE  handler' \in [Handlers -> RequestType] /\ Aimed'
<1>1. NoRequest \in RequestType /\ NoRequest.pc = "idle"
  BY EmptyType DEF RequestType, NoRequest
<1>2. handler \in [Handlers -> RequestType]
  BY DEF Typed, TypeOK, RequestType
<1>3. handler' = [handler EXCEPT ![h] = NoRequest]
  BY DEF Done
<1>4. handler' \in [Handlers -> RequestType]
  BY <1>1, <1>2, <1>3
<1>5. Aimed'
  BY <1>1, <1>2, <1>3 DEF Typed, Aimed
<1> QED  BY <1>4, <1>5

LEMMA BackTyped ==
    ASSUME Typed, NEW copy, NEW value \in Blob, WriteBack(copy, value)
    PROVE  findings' \in Blob /\ clobbered' \in BOOLEAN
BY DEF WriteBack, Typed, TypeOK

LEMMA TypedStep == Typed /\ [Next]_vars => Typed'
<1> SUFFICES ASSUME Typed, [Next]_vars PROVE Typed'
  OBVIOUS
<1> USE DEF Typed
<1>a. /\ findings \in Blob /\ dismissed \subseteq F /\ scan \in ScanType
      /\ handler \in [Handlers -> RequestType] /\ bugs \in [F -> 0..MaxBugs]
      /\ issues \subseteq F /\ fresh \in BOOLEAN /\ clobbered \in BOOLEAN
  BY DEF TypeOK, ScanType, RequestType
<1>b. NoScan \in ScanType /\ NoScan.found = {} /\ NoScan.new = {} /\ NoScan.copy = Empty
  BY EmptyType DEF NoScan, ScanType
<1>c. MaxBugs \in Nat \ {0}
  BY FindingsStoreAssumption
<1>d. scan.found \in SUBSET F /\ scan.new \in SUBSET F /\ scan.copy \in Blob
  BY <1>a, ScanParts
<1>e. Empty \in Blob
  BY EmptyType
<1>f. ASSUME findings' \in Blob, dismissed' \subseteq F, scan' \in ScanType,
             handler' \in [Handlers -> RequestType], Aimed',
             bugs' \in [F -> 0..MaxBugs], issues' \subseteq F,
             fresh' \in BOOLEAN, clobbered' \in BOOLEAN
      PROVE  Typed'
  BY <1>f DEF TypeOK, ScanType, RequestType
<1>g. UNCHANGED handler => Aimed'
  BY DEF Aimed
<1>1. CASE Detect
  <2>1. PICK d \in SUBSET F :
          scan' = [NoScan EXCEPT !.pc = "triage", !.found = d \ dismissed]
    BY <1>1 DEF Detect
  <2>2. scan' \in ScanType
    BY <2>1, <1>b DEF ScanType
  <2> QED  BY <1>1, <2>2, <1>a, <1>f, <1>g DEF Detect
<1>2. CASE Triage
  <2>1. PICK a \in SUBSET scan.found :
          /\ dismissed' = dismissed \cup a
          /\ scan' = [scan EXCEPT !.pc = "diff", !.found = @ \ a]
    BY <1>2 DEF Triage
  <2>2. scan' \in ScanType
    BY <2>1, <1>a DEF ScanType
  <2> QED  BY <1>2, <2>1, <2>2, <1>a, <1>d, <1>f, <1>g DEF Triage
<1>3. CASE Diff
  <2>1. scan' \in ScanType
    BY <1>3, <1>a DEF Diff, ScanType
  <2> QED  BY <1>3, <2>1, <1>a, <1>f, <1>g DEF Diff
<1>4. CASE StoreRead
  <2>1. scan' \in ScanType
    BY <1>4, <1>a DEF StoreRead, ScanType
  <2> QED  BY <1>4, <2>1, <1>a, <1>f, <1>g DEF StoreRead
<1>5. CASE StoreWrite
  <2>1. findings' \in Blob /\ clobbered' \in BOOLEAN
    <3>1. Stored(scan.found, scan.new, scan.copy) \in Blob
      BY <1>d, StoredType
    <3>2. WriteBack(scan.copy, Stored(scan.found, scan.new, scan.copy))
      BY <1>5 DEF StoreWrite
    <3> QED  BY <3>1, <3>2, <1>a DEF WriteBack
  <2>2. bugs' \in [F -> 0..MaxBugs]
    BY <1>5, <1>a, <1>c DEF StoreWrite
  <2>3. scan' \in ScanType
    BY <1>5, <1>a, <1>b, <1>e DEF StoreWrite, ScanType
  <2> QED  BY <1>5, <2>1, <2>2, <2>3, <1>a, <1>f, <1>g DEF StoreWrite
<1>6. CASE JiraPost
  <2>1. PICK f \in scan.new :
          \/ /\ scan' = [scan EXCEPT !.new = @ \ {f}]
             /\ UNCHANGED <<bugs, issues, clobbered>>
          \/ /\ bugs[f] < MaxBugs
             /\ bugs' = [bugs EXCEPT ![f] = IF fresh THEN @ ELSE @ + 1]
             /\ issues' = issues \cup {f}
             /\ scan' = [scan EXCEPT !.pc = "jiraRead", !.found = {f}, !.new = @ \ {f}]
    BY <1>6 DEF JiraPost
  <2>2. scan' \in ScanType
    BY <2>1, <1>a, ZenonT(40) DEF ScanType
  <2>3. bugs' \in [F -> 0..MaxBugs] /\ issues' \subseteq F
    BY <2>1, <1>a, <1>c, <1>d
  <2> QED  BY <1>6, <2>2, <2>3, <1>a, <1>f, <1>g DEF JiraPost
<1>7. CASE JiraRead
  <2>1. scan' \in ScanType
    BY <1>7, <1>a DEF JiraRead, ScanType
  <2> QED  BY <1>7, <2>1, <1>a, <1>f, <1>g DEF JiraRead
<1>8. CASE JiraWrite
  <2>1. PICK f \in scan.found : WriteBack(scan.copy, Link(scan.copy, f))
    BY <1>8 DEF JiraWrite
  <2>2. findings' \in Blob /\ clobbered' \in BOOLEAN
    BY <2>1, <1>d, LinkType, BackTyped
  <2>3. scan' \in ScanType
    BY <1>8, <1>a, <1>e DEF JiraWrite, ScanType
  <2> QED  BY <1>8, <2>2, <2>3, <1>a, <1>f, <1>g DEF JiraWrite
<1>9. CASE JiraDone \/ Abort
  BY <1>9, <1>a, <1>b, <1>f, <1>g DEF JiraDone, Abort
<1>18. CASE JiraFails
  <2>1. scan' \in ScanType
    BY <1>18, <1>a, <1>e DEF JiraFails, ScanType
  <2> QED  BY <1>18, <2>1, <1>a, <1>f, <1>g DEF JiraFails
<1>10. ASSUME NEW h \in Handlers, EditRead(h) PROVE Typed'
  <2>1. PICK f \in F, pc \in {"dismissWrite", "undismissWrite"} :
          Request(h, pc, f, findings)
    BY <1>10 DEF EditRead
  <2>2. handler' \in [Handlers -> RequestType] /\ Aimed'
    BY <2>1, <1>a, RequestTyped
  <2> QED  BY <1>10, <2>2, <1>a, <1>f DEF EditRead
<1>11. ASSUME NEW h \in Handlers, DismissWrite(h) \/ UndismissWrite(h) PROVE Typed'
  <2>1. handler[h].fp \in F /\ handler[h].copy \in Blob
    BY <1>11, <1>a DEF DismissWrite, UndismissWrite, Aimed, RequestType
  <2>2. handler' \in [Handlers -> RequestType] /\ Aimed'
    BY <1>11, <2>1, <1>e, RequestTyped DEF DismissWrite, UndismissWrite
  <2>3. findings' \in Blob /\ clobbered' \in BOOLEAN
    BY <1>11, <2>1, MarkType, BackTyped DEF DismissWrite, UndismissWrite
  <2> QED  BY <1>11, <2>2, <2>3, <1>a, <1>f DEF DismissWrite, UndismissWrite
<1>12. ASSUME NEW h \in Handlers, DismissHash(h) \/ UndismissHash(h) PROVE Typed'
  <2>1. handler[h].fp \in F
    BY <1>12, <1>a DEF DismissHash, UndismissHash, Aimed
  <2>2. handler' \in [Handlers -> RequestType] /\ Aimed'
    BY <1>12, DoneTyped DEF DismissHash, UndismissHash
  <2> QED  BY <1>12, <2>1, <2>2, <1>a, <1>f DEF DismissHash, UndismissHash
<1>13. ASSUME NEW h \in Handlers, BugPost(h) PROVE Typed'
  <2>1. PICK f \in F : Request(h, "bugRead", f, Empty) /\ issues' = issues \cup {f}
    BY <1>13 DEF BugPost
  <2>2. handler' \in [Handlers -> RequestType] /\ Aimed'
    BY <2>1, <1>e, RequestTyped
  <2> QED  BY <1>13, <2>1, <2>2, <1>a, <1>f DEF BugPost
<1>14. ASSUME NEW h \in Handlers, BugRead(h) PROVE Typed'
  <2>1. handler[h].fp \in F
    BY <1>14, <1>a DEF BugRead, Aimed
  <2>2. handler' \in [Handlers -> RequestType] /\ Aimed'
    BY <1>14, <2>1, <1>a, RequestTyped, DoneTyped DEF BugRead
  <2> QED  BY <1>14, <2>2, <1>a, <1>f DEF BugRead
<1>15. ASSUME NEW h \in Handlers, BugWrite(h) PROVE Typed'
  <2>1. handler[h].fp \in F /\ handler[h].copy \in Blob
    BY <1>15, <1>a DEF BugWrite, Aimed, RequestType
  <2>2. handler' \in [Handlers -> RequestType] /\ Aimed'
    BY <1>15, DoneTyped DEF BugWrite
  <2>3. findings' \in Blob /\ clobbered' \in BOOLEAN
    BY <1>15, <2>1, LinkType, BackTyped DEF BugWrite
  <2> QED  BY <1>15, <2>2, <2>3, <1>a, <1>f DEF BugWrite
<1>19. ASSUME NEW h \in Handlers, BugFails(h) PROVE Typed'
  <2>1. handler' \in [Handlers -> RequestType] /\ Aimed'
    BY <1>19, DoneTyped DEF BugFails
  <2> QED  BY <1>19, <2>1, <1>a, <1>f DEF BugFails
<1>16. ASSUME NEW h \in Handlers, Reset(h) PROVE Typed'
  <2>1. bugs' \in [F -> 0..MaxBugs]
    BY <1>16, <1>c DEF Reset
  <2> QED  BY <1>16, <2>1, <1>a, <1>e, <1>f, <1>g DEF Reset
<1>17. CASE UNCHANGED vars
  BY <1>17, <1>a, <1>f, <1>g DEF vars
<1> QED  BY <1>1, <1>2, <1>3, <1>4, <1>5, <1>6, <1>7, <1>8, <1>9, <1>10, <1>11,
            <1>12, <1>13, <1>14, <1>15, <1>16, <1>17, <1>18, <1>19 DEF Next

\* Every reachable state is well typed: no write ever stores a link to a
\* finding that is not stored, whatever copies it was made from.
THEOREM TypeCorrect == Spec => []TypeOK
<1>1. Spec => []Typed
  BY TypedInit, TypedStep, PTL DEF Spec
<1> QED  BY <1>1, PTL DEF Typed

-----------------------------------------------------------------------------
(* Links and issues: every copy in flight is as good as the stored value,  *)
(* and a link is only made for a finding whose issue exists.               *)

ScanLinks ==
    /\ scan.copy.linked \subseteq issues
    /\ scan.pc \in {"jiraRead", "jiraWrite"} => scan.found \subseteq issues

RequestLinks ==
    \A h \in Handlers :
        /\ handler[h].copy.linked \subseteq issues
        /\ handler[h].pc \in {"bugRead", "bugWrite"} => handler[h].fp \in issues

LinkInv == Typed /\ findings.linked \subseteq issues /\ ScanLinks /\ RequestLinks

LEMMA RequestLinked ==
    ASSUME LinkInv, issues \subseteq issues', NEW h \in Handlers, NEW f, NEW copy, NEW pc,
           copy.linked \subseteq issues', pc \in {"bugRead", "bugWrite"} => f \in issues',
           Request(h, pc, f, copy)
    PROVE  RequestLinks'
<1> DEFINE r == [pc |-> pc, fp |-> f, copy |-> copy]
<1>1. r.copy = copy /\ r.pc = pc /\ r.fp = f
  OBVIOUS
<1> HIDE DEF r
<1>2. handler \in [Handlers -> RequestType]
  BY DEF LinkInv, Typed, TypeOK, RequestType
<1>3. handler' = [handler EXCEPT ![h] = r]
  BY DEF Request, r
<1>4. \A k \in Handlers : handler'[k] = IF k = h THEN r ELSE handler[k]
  BY <1>2, <1>3
<1>5. RequestLinks
  BY DEF LinkInv
<1> QED  BY <1>1, <1>4, <1>5 DEF RequestLinks

LEMMA DoneLinked ==
    ASSUME LinkInv, issues \subseteq issues', NEW h \in Handlers, Done(h)
    PROVE  RequestLinks'
<1>1. NoRequest.pc = "idle" /\ NoRequest.copy.linked = {}
  BY DEF NoRequest, Empty
<1>2. handler \in [Handlers -> RequestType]
  BY DEF LinkInv, Typed, TypeOK, RequestType
<1>3. handler' = [handler EXCEPT ![h] = NoRequest]
  BY DEF Done
<1>4. \A k \in Handlers : handler'[k] = IF k = h THEN NoRequest ELSE handler[k]
  BY <1>2, <1>3
<1>5. RequestLinks
  BY DEF LinkInv
<1> QED  BY <1>1, <1>4, <1>5 DEF RequestLinks

LEMMA LinkInit == Init => LinkInv
BY TypedInit DEF Init, LinkInv, ScanLinks, RequestLinks, NoScan, NoRequest, Empty

LEMMA LinkStep == LinkInv /\ [Next]_vars => LinkInv'
<1> SUFFICES ASSUME LinkInv, [Next]_vars PROVE LinkInv'
  OBVIOUS
<1>a. /\ Typed /\ findings \in Blob /\ scan \in ScanType
      /\ handler \in [Handlers -> RequestType]
  BY DEF LinkInv, Typed, TypeOK, ScanType, RequestType
<1>b. findings.linked \subseteq issues /\ ScanLinks /\ RequestLinks
  BY DEF LinkInv
<1>c. scan.found \in SUBSET F /\ scan.new \in SUBSET F /\ scan.copy \in Blob
  BY <1>a, ScanParts
<1>d. Empty.linked = {} /\ NoScan.copy.linked = {} /\ NoScan.pc = "idle"
  BY DEF Empty, NoScan
<1>e. ASSUME findings'.linked \subseteq issues', ScanLinks', RequestLinks'
      PROVE  LinkInv'
  BY <1>a, <1>e, TypedStep DEF LinkInv
<1>f. ASSUME issues \subseteq issues'
      PROVE  /\ UNCHANGED findings => findings'.linked \subseteq issues'
             /\ UNCHANGED scan => ScanLinks'
             /\ UNCHANGED handler => RequestLinks'
  BY <1>b, <1>f DEF ScanLinks, RequestLinks
<1>1. CASE Detect
  <2>1. PICK d \in SUBSET F :
          scan' = [NoScan EXCEPT !.pc = "triage", !.found = d \ dismissed]
    BY <1>1 DEF Detect
  <2>2. scan'.pc = "triage" /\ scan'.copy.linked = {}
    BY <2>1 DEF NoScan, Empty
  <2> QED  BY <1>1, <2>2, <1>e, <1>f DEF Detect, ScanLinks
<1>2. CASE Triage
  <2>1. PICK a \in SUBSET scan.found :
          scan' = [scan EXCEPT !.pc = "diff", !.found = @ \ a]
    BY <1>2 DEF Triage
  <2>2. scan'.pc = "diff" /\ scan'.copy = scan.copy
    BY <2>1, <1>a DEF ScanType
  <2> QED  BY <1>2, <2>2, <1>b, <1>e, <1>f DEF Triage, ScanLinks
<1>3. CASE Diff
  <2>1. scan'.pc = "read" /\ scan'.copy = scan.copy
    BY <1>3, <1>a DEF Diff, ScanType
  <2> QED  BY <1>3, <2>1, <1>b, <1>e, <1>f DEF Diff, ScanLinks
<1>4. CASE StoreRead
  <2>1. scan'.pc = "write" /\ scan'.copy = findings
    BY <1>4, <1>a DEF StoreRead, ScanType
  <2> QED  BY <1>4, <2>1, <1>b, <1>e, <1>f DEF StoreRead, ScanLinks
<1>5. CASE StoreWrite
  <2>1. findings' = Stored(scan.found, scan.new, scan.copy)
    BY <1>5 DEF StoreWrite, WriteBack
  <2>2. findings'.linked = scan.copy.linked \cap scan.found
    BY <2>1, <1>c, StoredType
  <2>3. (scan'.pc \in {"idle", "jira"}) /\ scan'.copy.linked = {}
    BY <1>5, <1>a, <1>d DEF StoreWrite, ScanType
  <2> QED  BY <1>5, <2>2, <2>3, <1>b, <1>e, <1>f DEF StoreWrite, ScanLinks
<1>6. CASE JiraPost
  <2>1. PICK f \in scan.new :
          \/ /\ scan' = [scan EXCEPT !.new = @ \ {f}]
             /\ UNCHANGED issues
          \/ /\ issues' = issues \cup {f}
             /\ scan' = [scan EXCEPT !.pc = "jiraRead", !.found = {f}, !.new = @ \ {f}]
    BY <1>6 DEF JiraPost
  <2>2. scan.pc = "jira" /\ issues \subseteq issues'
    BY <1>6, <2>1 DEF JiraPost
  <2>3. ScanLinks'
    <3>1. CASE scan' = [scan EXCEPT !.new = @ \ {f}] /\ UNCHANGED issues
      <4>1. scan'.pc = "jira" /\ scan'.copy = scan.copy
        BY <3>1, <2>2, <1>a DEF ScanType
      <4> QED  BY <3>1, <4>1, <1>b DEF ScanLinks
    <3>2. CASE /\ issues' = issues \cup {f}
               /\ scan' = [scan EXCEPT !.pc = "jiraRead", !.found = {f}, !.new = @ \ {f}]
      <4>1. scan'.found = {f} /\ scan'.copy = scan.copy
        BY <3>2, <1>a DEF ScanType
      <4> QED  BY <3>2, <4>1, <1>b DEF ScanLinks
    <3> QED  BY <2>1, <3>1, <3>2
  <2> QED  BY <1>6, <2>2, <2>3, <1>e, <1>f DEF JiraPost
<1>7. CASE JiraRead
  <2>1. scan'.found = scan.found
        /\ (scan'.copy = findings \/ scan'.copy = scan.copy)
    BY <1>7, <1>a DEF JiraRead, ScanType
  <2> QED  BY <1>7, <2>1, <1>b, <1>e, <1>f DEF JiraRead, ScanLinks
<1>8. CASE JiraWrite
  <2>1. PICK f \in scan.found : findings' = Link(scan.copy, f)
    BY <1>8 DEF JiraWrite, WriteBack
  <2>2. findings'.linked \subseteq scan.copy.linked \cup {f}
    BY <2>1, <1>c, LinkType
  <2>3. scan'.pc = "jira" /\ scan'.copy.linked = {} /\ f \in issues
    BY <1>8, <1>a, <1>b, <1>d DEF JiraWrite, ScanType, ScanLinks
  <2> QED  BY <1>8, <2>2, <2>3, <1>b, <1>e, <1>f DEF JiraWrite, ScanLinks
<1>9. CASE JiraDone \/ Abort
  <2>1. ScanLinks'
    BY <1>9, <1>d DEF JiraDone, Abort, ScanLinks
  <2> QED  BY <1>9, <2>1, <1>e, <1>f DEF JiraDone, Abort
<1>18. CASE JiraFails
  <2>1. scan'.pc = "jira" /\ scan'.copy.linked = {}
    BY <1>18, <1>a, <1>d DEF JiraFails, ScanType
  <2> QED  BY <1>18, <2>1, <1>e, <1>f DEF JiraFails, ScanLinks
<1>10. ASSUME NEW h \in Handlers, EditRead(h) PROVE LinkInv'
  <2>1. PICK f \in F, pc \in {"dismissWrite", "undismissWrite"} :
          Request(h, pc, f, findings)
    BY <1>10 DEF EditRead
  <2>2. issues' = issues /\ pc \notin {"bugRead", "bugWrite"}
    BY <1>10 DEF EditRead
  <2>3. RequestLinks'
    BY <2>1, <2>2, <1>b, RequestLinked
  <2> QED  BY <1>10, <2>3, <1>e, <1>f DEF EditRead
<1>11. ASSUME NEW h \in Handlers, DismissWrite(h) \/ UndismissWrite(h) PROVE LinkInv'
  <2>1. PICK s \in {"dismissed", "ongoing"} :
          findings' = Mark(handler[h].copy, handler[h].fp, s)
    BY <1>11 DEF DismissWrite, UndismissWrite, WriteBack
  <2>2. handler[h].fp \in F /\ handler[h].copy \in Blob
    BY <1>11, <1>a DEF DismissWrite, UndismissWrite, Typed, Aimed, RequestType
  <2>3. findings'.linked = handler[h].copy.linked
    BY <2>1, <2>2, MarkType
  <2>4. RequestLinks'
    BY <1>11, <1>d, RequestLinked DEF DismissWrite, UndismissWrite
  <2> QED  BY <1>11, <2>3, <2>4, <1>b, <1>e, <1>f
           DEF DismissWrite, UndismissWrite, RequestLinks
<1>12. ASSUME NEW h \in Handlers, DismissHash(h) \/ UndismissHash(h) PROVE LinkInv'
  BY <1>12, <1>e, <1>f, DoneLinked DEF DismissHash, UndismissHash
<1>13. ASSUME NEW h \in Handlers, BugPost(h) PROVE LinkInv'
  <2>1. PICK f \in F : Request(h, "bugRead", f, Empty) /\ issues' = issues \cup {f}
    BY <1>13 DEF BugPost
  <2>2. RequestLinks'
    BY <2>1, <1>d, RequestLinked
  <2> QED  BY <1>13, <2>1, <2>2, <1>e, <1>f DEF BugPost
<1>14. ASSUME NEW h \in Handlers, BugRead(h) PROVE LinkInv'
  <2>1. handler[h].fp \in issues
    BY <1>14, <1>b DEF BugRead, RequestLinks
  <2>2. RequestLinks'
    BY <1>14, <2>1, <1>b, RequestLinked, DoneLinked DEF BugRead
  <2> QED  BY <1>14, <2>2, <1>e, <1>f DEF BugRead
<1>15. ASSUME NEW h \in Handlers, BugWrite(h) PROVE LinkInv'
  <2>1. findings' = Link(handler[h].copy, handler[h].fp)
    BY <1>15 DEF BugWrite, WriteBack
  <2>2. handler[h].fp \in F /\ handler[h].copy \in Blob
    BY <1>15, <1>a DEF BugWrite, Typed, Aimed, RequestType
  <2>3. findings'.linked \subseteq handler[h].copy.linked \cup {handler[h].fp}
    BY <2>1, <2>2, LinkType
  <2>4. handler[h].copy.linked \subseteq issues /\ handler[h].fp \in issues
    BY <1>15, <1>b DEF BugWrite, RequestLinks
  <2>5. RequestLinks'
    BY <1>15, DoneLinked DEF BugWrite
  <2> QED  BY <1>15, <2>3, <2>4, <2>5, <1>e, <1>f DEF BugWrite
<1>19. ASSUME NEW h \in Handlers, BugFails(h) PROVE LinkInv'
  <2>1. RequestLinks'
    BY <1>19, DoneLinked DEF BugFails
  <2> QED  BY <1>19, <2>1, <1>e, <1>f DEF BugFails
<1>16. ASSUME NEW h \in Handlers, Reset(h) PROVE LinkInv'
  BY <1>16, <1>d, <1>e, <1>f DEF Reset
<1>17. CASE UNCHANGED vars
  BY <1>17, <1>e, <1>f DEF vars
<1> QED  BY <1>1, <1>2, <1>3, <1>4, <1>5, <1>6, <1>7, <1>8, <1>9, <1>10, <1>11,
            <1>12, <1>13, <1>14, <1>15, <1>16, <1>17, <1>18, <1>19 DEF Next

\* Whatever copies are written back over each other, a stored link always leads
\* to an issue that was created for its finding.
THEOREM LinksAreReal == Spec => []LinkHasIssue
<1>1. LinkInv => LinkHasIssue
  BY DEF LinkInv, LinkHasIssue, ScanLinks, RequestLinks
<1> QED  BY <1>1, LinkInit, LinkStep, PTL DEF Spec

-----------------------------------------------------------------------------
(* One bug per spell.  As long as every write was made from the value it   *)
(* replaced, a finding with a bug is stored, so the next comparison does   *)
(* not take it for new; and what a scan takes for new has no bug yet.      *)

BugsAreStored == \A f \in F : bugs[f] > 0 => Present(findings, f)
NewIsUnfiled ==
    scan.pc \in {"read", "write", "jira", "jiraRead", "jiraWrite"}
        => \A f \in scan.new : bugs[f] = 0
NewIsStored ==
    scan.pc \in {"jira", "jiraRead", "jiraWrite"}
        => \A f \in scan.new : Present(findings, f)

BugInv ==
    /\ Typed
    /\ scan.pc \in {"read", "write"} => scan.new \subseteq scan.found
    /\ ~clobbered => /\ OneBug /\ BugsAreStored
                     /\ fresh => \A f \in F : bugs[f] = 0
                     /\ ~fresh => NewIsUnfiled /\ NewIsStored

\* A request or a link that overwrites nothing removes no finding.
LEMMA GrowingStep ==
    ASSUME BugInv, Typed', UNCHANGED <<bugs, fresh>>,
           ~clobbered' => ~clobbered /\ \A f \in F : Present(findings, f) => Present(findings', f),
           \/ UNCHANGED scan
           \/ /\ scan.pc = "jiraRead" /\ scan'.pc \in {"jira", "jiraWrite"}
              /\ scan'.new = scan.new
           \/ scan.pc = "jiraWrite" /\ scan'.pc = "jira" /\ scan'.new = scan.new
           \/ scan.pc = "read" /\ scan'.pc = "write" /\ scan'.new = scan.new
              /\ scan'.found = scan.found
           \/ scan'.pc \notin {"read", "write", "jira", "jiraRead", "jiraWrite"}
    PROVE  BugInv'
<1>1. scan.new \subseteq F /\ scan'.new \subseteq F
  BY DEF BugInv, Typed, TypeOK
<1>3. ASSUME ~clobbered' PROVE OneBug' /\ BugsAreStored'
  BY <1>3 DEF BugInv, OneBug, BugsAreStored
<1>4. ASSUME ~clobbered', ~fresh' PROVE NewIsUnfiled' /\ NewIsStored'
  <2>1. ~clobbered /\ NewIsUnfiled /\ NewIsStored
    BY <1>4 DEF BugInv
  <2> QED  BY <1>1, <1>4, <2>1 DEF NewIsUnfiled, NewIsStored
<1>5. ASSUME ~clobbered', fresh' PROVE \A f \in F : bugs'[f] = 0
  BY <1>5 DEF BugInv
<1>6. (scan.pc \in {"read", "write"} => scan.new \subseteq scan.found)'
  BY DEF BugInv
<1> QED  BY <1>3, <1>4, <1>5, <1>6 DEF BugInv

LEMMA BugInit == Init => BugInv
<1> SUFFICES ASSUME Init PROVE BugInv
  OBVIOUS
<1>1. Typed /\ scan.pc = "idle" /\ \A f \in F : bugs[f] = 0
  BY TypedInit DEF Init, NoScan
<1> QED  BY <1>1 DEF Init, BugInv, OneBug, BugsAreStored, NewIsUnfiled, NewIsStored

LEMMA BugStep == BugInv /\ [Next]_vars => BugInv'
<1> SUFFICES ASSUME BugInv, [Next]_vars PROVE BugInv'
  OBVIOUS
<1>a. /\ Typed /\ Typed' /\ findings \in Blob /\ scan \in ScanType
      /\ handler \in [Handlers -> RequestType] /\ bugs \in [F -> 0..MaxBugs]
      /\ fresh \in BOOLEAN /\ clobbered \in BOOLEAN
  BY TypedStep DEF BugInv, Typed, TypeOK, ScanType, RequestType
<1>b. scan.found \in SUBSET F /\ scan.new \in SUBSET F /\ scan.copy \in Blob
  BY <1>a, ScanParts
<1>c. /\ scan.pc \in {"read", "write"} => scan.new \subseteq scan.found
      /\ ~clobbered => /\ \A f \in F : bugs[f] <= 1
                       /\ \A f \in F : bugs[f] > 0 => Present(findings, f)
                       /\ fresh => \A f \in F : bugs[f] = 0
                       /\ ~fresh => NewIsUnfiled /\ NewIsStored
  BY DEF BugInv, OneBug, BugsAreStored
<1>1. CASE Detect
  <2>1. PICK d \in SUBSET F :
          scan' = [NoScan EXCEPT !.pc = "triage", !.found = d \ dismissed]
    BY <1>1 DEF Detect
  <2>2. scan'.pc = "triage"
    BY <2>1 DEF NoScan
  <2> QED  BY <1>1, <2>2, <1>a, GrowingStep DEF Detect
<1>2. CASE Triage
  <2>1. PICK a \in SUBSET scan.found :
          scan' = [scan EXCEPT !.pc = "diff", !.found = @ \ a]
    BY <1>2 DEF Triage
  <2>2. scan'.pc = "diff"
    BY <2>1, <1>a DEF ScanType
  <2> QED  BY <1>2, <2>2, <1>a, GrowingStep DEF Triage
<1>3. CASE Diff
  <2>1. /\ scan'.pc = "read" /\ scan'.found = scan.found
        /\ scan'.new = {f \in scan.found : ~Present(findings, f)}
        /\ ~fresh' /\ UNCHANGED <<findings, bugs, clobbered>>
    BY <1>3, <1>a DEF Diff, ScanType
  <2>2. ASSUME ~clobbered, NEW f \in scan'.new PROVE bugs[f] = 0
    BY <2>1, <2>2, <1>a, <1>b, <1>c, FindingsStoreAssumption
  <2> QED  BY <2>1, <2>2, <1>a, <1>c
           DEF BugInv, OneBug, BugsAreStored, NewIsUnfiled, NewIsStored
<1>4. CASE StoreRead
  <2>1. scan.pc = "read" /\ scan'.pc = "write" /\ scan'.new = scan.new
        /\ scan'.found = scan.found
    BY <1>4, <1>a DEF StoreRead, ScanType
  <2> QED  BY <1>4, <2>1, <1>a, GrowingStep DEF StoreRead
<1>5. CASE StoreWrite
  <2>1. /\ findings' = Stored(scan.found, scan.new, scan.copy)
        /\ clobbered' = (clobbered \/ scan.copy # findings)
        /\ bugs' = [f \in F |-> IF f \in scan.found THEN bugs[f] ELSE 0]
        /\ UNCHANGED fresh /\ scan.pc = "write"
    BY <1>5 DEF StoreWrite, WriteBack
  <2>2. \A f \in F : Present(findings', f) <=> f \in scan.found
    BY <2>1, <1>b, StoredType
  <2>3. /\ scan'.pc \in {"idle", "jira"}
        /\ scan'.pc = "jira" => scan'.new = scan.new
    <3>1. scan' = NoScan \/ scan' = [scan EXCEPT !.pc = "jira", !.copy = Empty]
      BY <1>5 DEF StoreWrite
    <3>2. CASE scan' = NoScan
      BY <3>2 DEF NoScan
    <3>3. CASE scan' = [scan EXCEPT !.pc = "jira", !.copy = Empty]
      BY <3>3, <1>a DEF ScanType
    <3> QED  BY <3>1, <3>2, <3>3
  <2>4. ASSUME ~clobbered', NEW f \in F
        PROVE  bugs'[f] <= 1 /\ (bugs'[f] > 0 => Present(findings', f))
               /\ (bugs[f] = 0 => bugs'[f] = 0)
    <3>1. bugs'[f] = IF f \in scan.found THEN bugs[f] ELSE 0
      BY <2>1
    <3>2. ~clobbered /\ bugs[f] <= 1
      BY <2>1, <2>4, <1>c
    <3>3. Present(findings', f) <=> f \in scan.found
      BY <2>2
    <3> QED  BY <3>1, <3>2, <3>3
  <2>5. ASSUME ~clobbered', ~fresh', scan'.pc = "jira", NEW f \in scan'.new
        PROVE  bugs'[f] = 0 /\ Present(findings', f)
    BY <2>1, <2>2, <2>3, <2>4, <2>5, <1>b, <1>c DEF NewIsUnfiled
  <2> QED  BY <2>1, <2>3, <2>4, <2>5, <1>a, <1>c
           DEF BugInv, OneBug, BugsAreStored, NewIsUnfiled, NewIsStored
<1>6. CASE JiraPost
  <2>1. PICK f \in scan.new :
          \/ /\ scan' = [scan EXCEPT !.new = @ \ {f}]
             /\ UNCHANGED <<bugs, issues, clobbered>>
          \/ /\ bugs' = [bugs EXCEPT ![f] = IF fresh THEN @ ELSE @ + 1]
             /\ scan' = [scan EXCEPT !.pc = "jiraRead", !.found = {f}, !.new = @ \ {f}]
    BY <1>6 DEF JiraPost
  <2>2. scan.pc = "jira" /\ UNCHANGED <<findings, fresh, clobbered>>
    BY <1>6 DEF JiraPost
  <2>3. scan'.pc \in {"jira", "jiraRead"} /\ scan'.new = scan.new \ {f}
    BY <2>1, <2>2, <1>a DEF ScanType
  <2>4. ASSUME ~clobbered, NEW g \in F
        PROVE  /\ bugs'[g] <= 1 /\ (bugs'[g] > 0 => Present(findings, g))
               /\ fresh => bugs'[g] = 0
               /\ g # f => bugs'[g] = bugs[g]
    <3>1. ~fresh => bugs[f] = 0 /\ Present(findings, f)
      BY <2>2, <2>4, <1>c DEF NewIsUnfiled, NewIsStored
    <3>2. f \in F /\ bugs[g] \in 0..MaxBugs
      BY <1>a, <1>b
    <3> QED  BY <2>1, <2>4, <3>1, <3>2, <1>a, <1>c, FindingsStoreAssumption
  <2>5. ASSUME ~clobbered, ~fresh, NEW g \in scan'.new
        PROVE  bugs'[g] = 0 /\ Present(findings, g)
    BY <2>2, <2>3, <2>4, <2>5, <1>b, <1>c DEF NewIsUnfiled, NewIsStored
  <2> QED  BY <2>2, <2>3, <2>4, <2>5, <1>a
           DEF BugInv, OneBug, BugsAreStored, NewIsUnfiled, NewIsStored
<1>7. CASE JiraRead
  <2>1. scan.pc = "jiraRead" /\ scan'.pc \in {"jira", "jiraWrite"}
        /\ scan'.new = scan.new
    BY <1>7, <1>a DEF JiraRead, ScanType
  <2> QED  BY <1>7, <2>1, <1>a, GrowingStep DEF JiraRead
<1>15. CASE JiraFails
  <2>1. /\ scan.pc \in {"jiraRead", "jiraWrite"} /\ scan'.pc = "jira"
        /\ scan'.new = scan.new
    BY <1>15, <1>a DEF JiraFails, ScanType
  <2> QED  BY <1>15, <2>1, <1>a, GrowingStep DEF JiraFails
<1>8. CASE JiraWrite
  <2>1. PICK f \in scan.found : WriteBack(scan.copy, Link(scan.copy, f))
    BY <1>8 DEF JiraWrite
  <2>2. ~clobbered' => ~clobbered /\ \A g \in F : Present(findings, g) => Present(findings', g)
    BY <2>1, <1>b, LinkType DEF WriteBack
  <2>3. scan.pc = "jiraWrite" /\ scan'.pc = "jira" /\ scan'.new = scan.new
    BY <1>8, <1>a DEF JiraWrite, ScanType
  <2> QED  BY <1>8, <2>2, <2>3, <1>a, GrowingStep DEF JiraWrite
<1>9. CASE JiraDone \/ Abort
  <2>1. scan'.pc = "idle"
    BY <1>9 DEF JiraDone, Abort, NoScan
  <2> QED  BY <1>9, <2>1, <1>a, GrowingStep DEF JiraDone, Abort
<1>10. ASSUME NEW h \in Handlers,
              \/ EditRead(h) \/ DismissHash(h) \/ UndismissHash(h)
              \/ BugPost(h) \/ BugRead(h) \/ BugFails(h)
       PROVE  BugInv'
  BY <1>10, <1>a, GrowingStep
     DEF EditRead, DismissHash, UndismissHash, BugPost, BugRead, BugFails
<1>11. ASSUME NEW h \in Handlers, DismissWrite(h) \/ UndismissWrite(h) PROVE BugInv'
  <2>1. PICK s \in {"dismissed", "ongoing"} :
          WriteBack(handler[h].copy, Mark(handler[h].copy, handler[h].fp, s))
    BY <1>11 DEF DismissWrite, UndismissWrite
  <2>2. handler[h].fp \in F /\ handler[h].copy \in Blob
    BY <1>11, <1>a DEF DismissWrite, UndismissWrite, Typed, Aimed, RequestType
  <2>3. ~clobbered' => ~clobbered /\ \A g \in F : Present(findings, g) => Present(findings', g)
    BY <2>1, <2>2, MarkType DEF WriteBack
  <2> QED  BY <1>11, <2>3, <1>a, GrowingStep DEF DismissWrite, UndismissWrite
<1>12. ASSUME NEW h \in Handlers, BugWrite(h) PROVE BugInv'
  <2>1. WriteBack(handler[h].copy, Link(handler[h].copy, handler[h].fp))
    BY <1>12 DEF BugWrite
  <2>2. handler[h].fp \in F /\ handler[h].copy \in Blob
    BY <1>12, <1>a DEF BugWrite, Typed, Aimed, RequestType
  <2>3. ~clobbered' => ~clobbered /\ \A g \in F : Present(findings, g) => Present(findings', g)
    BY <2>1, <2>2, LinkType DEF WriteBack
  <2> QED  BY <1>12, <2>3, <1>a, GrowingStep DEF BugWrite
<1>13. ASSUME NEW h \in Handlers, Reset(h) PROVE BugInv'
  <2>1. fresh' /\ (\A f \in F : bugs'[f] = 0) /\ UNCHANGED <<scan, clobbered>>
    BY <1>13 DEF Reset
  <2> QED  BY <2>1, <1>a, <1>c DEF BugInv, OneBug, BugsAreStored
<1>14. CASE UNCHANGED vars
  BY <1>14, <1>a, GrowingStep DEF vars
<1> QED  BY <1>1, <1>2, <1>3, <1>4, <1>5, <1>6, <1>7, <1>8, <1>9, <1>10, <1>11,
            <1>12, <1>13, <1>14, <1>15 DEF Next

\* Unless some write was made from an outdated copy, the scheduler files one
\* bug for as long as a finding keeps being found.
THEOREM OneBugPerSpell == Spec => []OneBug
<1>1. BugInv => OneBug
  BY DEF BugInv, OneBug
<1> QED  BY <1>1, BugInit, BugStep, PTL DEF Spec

-----------------------------------------------------------------------------
(* Links that last.                                                        *)

Kept == ~clobbered' =>
          \A f \in findings.linked : Present(findings', f) => f \in findings'.linked

LEMMA KeptStep == Typed /\ [Next]_vars => [Kept]_vars
<1> SUFFICES ASSUME Typed, [Next]_vars, ~clobbered',
                    NEW f \in findings.linked, Present(findings', f)
             PROVE  f \in findings'.linked
  BY DEF Kept
<1>a. /\ findings \in Blob /\ scan \in ScanType /\ handler \in [Handlers -> RequestType]
  BY DEF Typed, TypeOK, ScanType, RequestType
<1>b. scan.found \in SUBSET F /\ scan.new \in SUBSET F /\ scan.copy \in Blob
  BY <1>a, ScanParts
<1>c. f \in F
  BY <1>a, BlobParts
<1>1. CASE UNCHANGED findings
  BY <1>1
<1>2. CASE StoreWrite
  <2>1. findings' = Stored(scan.found, scan.new, scan.copy) /\ scan.copy = findings
    BY <1>2 DEF StoreWrite, WriteBack
  <2>2. f \in scan.found
    BY <2>1, <1>b, <1>c, StoredType
  <2>3. Stored(scan.found, scan.new, scan.copy).linked = scan.copy.linked \cap scan.found
    BY <1>b, StoredType
  <2> QED  BY <2>1, <2>2, <2>3
<1>3. CASE JiraWrite
  <2>1. PICK g \in scan.found : findings' = Link(findings, g)
    BY <1>3 DEF JiraWrite, WriteBack
  <2> QED  BY <2>1, <1>a, <1>b, LinkType
<1>4. ASSUME NEW h \in Handlers, DismissWrite(h) \/ UndismissWrite(h)
      PROVE  f \in findings'.linked
  <2>1. PICK s \in {"dismissed", "ongoing"} : findings' = Mark(findings, handler[h].fp, s)
    BY <1>4 DEF DismissWrite, UndismissWrite, WriteBack
  <2>2. handler[h].fp \in F
    BY <1>4, <1>a DEF DismissWrite, UndismissWrite, Typed, Aimed
  <2> QED  BY <2>1, <2>2, <1>a, MarkType
<1>5. ASSUME NEW h \in Handlers, BugWrite(h) PROVE f \in findings'.linked
  <2>1. findings' = Link(findings, handler[h].fp)
    BY <1>5 DEF BugWrite, WriteBack
  <2>2. handler[h].fp \in F
    BY <1>5, <1>a DEF BugWrite, Typed, Aimed
  <2> QED  BY <2>1, <2>2, <1>a, LinkType
<1>6. ASSUME NEW h \in Handlers, Reset(h) PROVE f \in findings'.linked
  BY <1>6, <1>c DEF Reset, Empty, Present
<1> QED  BY <1>1, <1>2, <1>3, <1>4, <1>5, <1>6
         DEF Next, vars, Detect, Triage, Diff, StoreRead, JiraPost, JiraRead, JiraDone,
             JiraFails, Abort, EditRead, DismissHash, UndismissHash, BugPost, BugRead,
             BugFails

\* A link is lost only to a write that was made from an outdated copy: no scan,
\* dismissal, undismissal or link drops one on its own account.
THEOREM LinksLast == Spec => LinkKept
<1>1. Spec => []Typed
  BY TypedInit, TypedStep, PTL DEF Spec
<1> QED  BY <1>1, KeptStep, PTL DEF Spec, LinkKept, Kept

=============================================================================
