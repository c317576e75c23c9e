------------------------- MODULE ScanPipelineProofs -------------------------
(***************************************************************************)
(* Theorems about ScanPipeline for any findings of any kind and weight, any *)
(* budgets and any number of scans beside each other.                      *)
(***************************************************************************)
EXTENDS ScanPipeline, TLAPS

Memory == [F -> Confidences]

\* What a scan in progress knows to be true of its findings.
Honest(s) ==
    /\ s.pc \in {"compare", "plan"} => \A f \in s.found : s.sev[f] \in SeveritiesOf(f)
    /\ s.pc \in {"plan", "run"} => s.new \subseteq s.found
    /\ s.pc = "run" => \A f \in s.new :
          Serious(s.sev[f]) /\ Kind[f] # "offline"
              => f \in s.todo \/ f \in s.missed \/ s.got[f] # "none"
    /\ s.pc \in {"compare", "plan"} => s.got = None
    /\ s.pc = "run" => s.settled \cap s.todo = {}
    /\ s.pc \in {"run", "invRead", "invWrite"} => \A f \in s.settled : s.got[f] = "none"

Inv == TypeOK /\ NothingForgotten /\ \A r \in Runners : Honest(scan[r])

LEMMA NoneType == None \in Memory /\ \A f \in F : None[f] = "none"
BY DEF None, Memory, Confidences

LEMMA NoScanType == NoScan \in ScanType /\ NoScan.pc = "idle" /\ Honest(NoScan)
<1>1. NoScan \in ScanType
  BY NoneType DEF NoScan, ScanType, AllModes, Severities, Memory
<1>2. NoScan.pc = "idle"
  BY DEF NoScan
<1> QED  BY <1>1, <1>2 DEF Honest

LEMMA Fields ==
    ASSUME NEW s \in ScanType
    PROVE  /\ s.found \subseteq F /\ s.new \subseteq F /\ s.todo \subseteq F
           /\ s.missed \subseteq F /\ s.settled \subseteq F /\ s.sev \in [F -> Severities] /\ s.mode \in AllModes
           /\ s.got \in Memory /\ s.copy \in Memory
           /\ s.pc \in {"idle", "compare", "plan", "run", "invRead", "invWrite"}
BY DEF ScanType, Memory

\* A new critical or warning finding passes every plan there is.
LEMMA NewsIsGated ==
    ASSUME NEW mode, NEW found \in SUBSET F, NEW sev, NEW new, NEW known,
           NEW f \in found, f \in new, Serious(sev[f]), Kind[f] # "offline"
    PROVE  f \in Gated(mode, found, sev, new, known)
BY DEF Gated, Candidates, ShouldInvestigate

\* A regular plan has nothing in it that is both old and surely answered.
LEMMA GatedIsOpen ==
    ASSUME NEW mode \in {"ui", "sched"}, NEW found, NEW sev, NEW new, NEW known,
           NEW f \in Gated(mode, found, sev, new, known), known[f] = "high"
    PROVE  f \in new
BY DEF Gated, Candidates, ShouldInvestigate, Deep

\* No plan has anything in it that is settled.
LEMMA SettledIsLeft ==
    ASSUME NEW s \in ScanType, NEW known \in Readings(s.mode, investigated, None)
    PROVE  Settled(s) \cap Gated(s.mode, s.found, s.sev, s.new, known) = {}
<1>1. CASE s.mode \in {"ui", "sched"}
  <2>1. known = investigated
    BY <1>1 DEF Readings, CommandLine
  <2>2. Settled(s) = {f \in F : investigated[f] = "high"} \ s.new
    BY <1>1 DEF Settled, MayReopen
  <2> QED  BY <1>1, <2>1, <2>2, GatedIsOpen
<1>2. CASE s.mode \notin {"ui", "sched"}
  <2>1. Settled(s) \cap s.found = {}
    BY <1>2 DEF Settled, MayReopen
  <2>2. Gated(s.mode, s.found, s.sev, s.new, known) \subseteq s.found
    BY DEF Gated, Candidates
  <2> QED  BY <2>1, <2>2
<1> QED  BY <1>1, <1>2

\* Where patterns have the severities their check gives them, it makes no
\* difference to a regular plan whether the patterns are proposed.
LEMMA SamePlan ==
    ASSUME NEW found, NEW sev, NEW new, NEW known,
           \A f \in found : sev[f] \in SeveritiesOf(f)
    PROVE  /\ Gated("ui", found, sev, new, known) = Gated("sched", found, sev, new, known)
           /\ Gated("cli", found, sev, new, known) = Gated("sched", found, sev, new, known)
<1> DEFINE Regular(f) == \/ f \in new /\ Serious(sev[f])
                         \/ f \notin new /\ sev[f] = "critical"
           Passes(f) == ShouldInvestigate(f, sev[f], f \in new, known[f] = "high", FALSE)
<1>1. ASSUME NEW f \in found, Pattern(f), Passes(f) PROVE Regular(f)
  <2>1. Serious(sev[f])
    BY <1>1 DEF SeveritiesOf, Pattern, Serious
  <2>2. f \in new \/ sev[f] = "critical"
    BY <1>1, <2>1 DEF ShouldInvestigate
  <2> QED  BY <2>1, <2>2
<1>2. ASSUME NEW mode \in {"ui", "cli", "sched"}
      PROVE  Gated(mode, found, sev, new, known) = {f \in found : Regular(f) /\ Passes(f)}
  <2>1. Deep(mode) = FALSE /\ mode # "uiAll"
    BY <1>2 DEF Deep
  <2>2. Candidates(mode, found, sev, new) =
          {f \in found : Regular(f) \/ (mode \in {"ui", "cli"} /\ Pattern(f))}
    BY <2>1 DEF Candidates
  <2>3. Gated(mode, found, sev, new, known) =
          {f \in Candidates(mode, found, sev, new) : Passes(f)}
    BY <2>1 DEF Gated
  <2> HIDE DEF Passes, Regular
  <2> QED  BY <2>2, <2>3, <1>1
<1> QED  BY <1>2

LEMMA PutScan ==
    ASSUME TypeOK, NEW r \in Runners, NEW s \in ScanType, Put(r, s)
    PROVE  /\ scan' \in [Runners -> ScanType] /\ scan'[r] = s
           /\ \A q \in Runners \ {r} : scan'[q] = scan[q]
BY DEF Put, TypeOK

\* A step that only moves a scan on, and none that was saving its results.
LEMMA MovingStep ==
    ASSUME Inv, NEW r \in Runners, NEW s \in ScanType, Put(r, s), Honest(s),
           scan[r].pc \in {"invRead", "invWrite"} =>
               s.pc \in {"invRead", "invWrite"} /\ s.got = scan[r].got,
           UNCHANGED <<stored, investigated, redo, owed, excused>>
    PROVE  Inv'
<1>1. /\ scan' \in [Runners -> ScanType] /\ scan'[r] = s
      /\ \A q \in Runners \ {r} : scan'[q] = scan[q]
  BY PutScan DEF Inv
<1>2. TypeOK'
  BY <1>1 DEF Inv, TypeOK
<1>3. \A f \in F : Pending(f) => Pending(f)'
  BY <1>1 DEF Pending
<1>4. NothingForgotten'
  BY <1>3 DEF Inv, NothingForgotten, TypeOK
<1>5. \A q \in Runners : Honest(scan'[q])
  BY <1>1 DEF Inv
<1> QED  BY <1>2, <1>4, <1>5 DEF Inv

-----------------------------------------------------------------------------
(* The invariant.                                                          *)

LEMMA InitInv == Init => Inv
<1> SUFFICES ASSUME Init PROVE Inv
  OBVIOUS
<1>1. scan \in [Runners -> ScanType] /\ \A r \in Runners : Honest(scan[r])
  BY NoScanType DEF Init
<1>2. redo \in [pc : {"idle", "read", "write"}, fps : SUBSET F, copy : [F -> Confidences]]
  BY NoneType DEF Init, NoRedo, Memory
<1> QED  BY <1>1, <1>2, NoneType DEF Init, Inv, TypeOK, NothingForgotten, Memory

LEMMA DetectStep == ASSUME Inv, NEW r \in Runners, Detect(r) PROVE Inv'
<1>1. PICK mode \in Modes, found \in SUBSET F : \E sev \in [found -> Severities] :
        /\ \A f \in found : sev[f] \in SeveritiesOf(f)
        /\ Put(r, [NoScan EXCEPT !.pc = "compare", !.mode = mode, !.found = found,
                     !.sev = [f \in F |-> IF f \in found THEN sev[f] ELSE "low"]])
  BY DEF Detect
<1>2. PICK sev \in [found -> Severities] :
        /\ \A f \in found : sev[f] \in SeveritiesOf(f)
        /\ Put(r, [NoScan EXCEPT !.pc = "compare", !.mode = mode, !.found = found,
                     !.sev = [f \in F |-> IF f \in found THEN sev[f] ELSE "low"]])
  BY <1>1
<1> DEFINE day == [f \in F |-> IF f \in found THEN sev[f] ELSE "low"]
           s == [NoScan EXCEPT !.pc = "compare", !.mode = mode, !.found = found, !.sev = day]
<1>3. day \in [F -> Severities] /\ \A f \in found : day[f] \in SeveritiesOf(f)
  BY <1>2 DEF Severities
<1>4. Put(r, s)
  BY <1>2
<1>5. mode \in AllModes
  BY ScanPipelineAssumption
<1> HIDE DEF day
<1>6. s \in ScanType /\ s.pc = "compare" /\ s.found = found /\ s.sev = day
  BY <1>3, <1>5, NoScanType DEF ScanType
<1>a. s.got = None
  BY DEF NoScan
<1> HIDE DEF s
<1>7. Honest(s)
  BY <1>3, <1>6, <1>a DEF Honest
<1>8. scan[r].pc = "idle" /\ UNCHANGED <<stored, investigated, redo, owed, excused>>
  BY DEF Detect
<1> QED  BY <1>4, <1>6, <1>7, <1>8, MovingStep

LEMMA CompareStep == ASSUME Inv, NEW r \in Runners, Compare(r) PROVE Inv'
<1> PICK previous \in Readings(scan[r].mode, stored, {}) :
        Put(r, [scan[r] EXCEPT !.pc = "plan", !.new = scan[r].found \ previous])
  BY DEF Compare
<1> DEFINE s == [scan[r] EXCEPT !.pc = "plan", !.new = scan[r].found \ previous]
<1>1. scan[r] \in ScanType /\ Honest(scan[r])
  BY DEF Inv, TypeOK
<1>2. /\ s \in ScanType /\ s.pc = "plan" /\ s.found = scan[r].found
      /\ s.sev = scan[r].sev /\ s.new \subseteq s.found /\ s.got = scan[r].got
  BY <1>1 DEF ScanType
<1>3. Put(r, s) /\ scan[r].pc = "compare"
      /\ UNCHANGED <<stored, investigated, redo, owed, excused>>
  BY DEF Compare
<1> HIDE DEF s
<1>4. Honest(s)
  BY <1>1, <1>2, <1>3 DEF Honest
<1> QED  BY <1>2, <1>3, <1>4, MovingStep

LEMMA PlanStep ==
    ASSUME Inv, NEW r \in Runners, Plan(r)
    PROVE  Inv'
<1> DEFINE c == scan[r]
<1> PICK known \in Readings(c.mode, investigated, None) :
        \E q \in Cuts(Gated(c.mode, c.found, c.sev, c.new, known), c.sev, Budget(c.mode)) :
            Put(r, [c EXCEPT !.pc = "run", !.todo = q,
                        !.missed = Gated(c.mode, c.found, c.sev, c.new, known) \ q,
                        !.settled = Settled(c)])
  BY DEF Plan
<1> DEFINE gated == Gated(c.mode, c.found, c.sev, c.new, known)
<1>1. c \in ScanType /\ Honest(c) /\ c.pc = "plan"
  BY DEF Inv, TypeOK, Plan
<1>2. gated \subseteq c.found
  BY DEF Gated, Candidates
<1>3. c.found \subseteq F /\ c.new \subseteq c.found
  BY <1>1, Fields DEF Honest
<1>4. ASSUME NEW f \in c.new, Serious(c.sev[f]), Kind[f] # "offline" PROVE f \in gated
  BY <1>3, <1>4, NewsIsGated
<1>5. PICK p \in Cuts(gated, c.sev, Budget(c.mode)) :
        Put(r, [c EXCEPT !.pc = "run", !.todo = p, !.missed = gated \ p,
                  !.settled = Settled(c)])
  OBVIOUS
<1>6. p \subseteq gated
  BY DEF Cuts
<1>7. UNCHANGED <<stored, investigated, redo, owed, excused>>
  BY DEF Plan
<1>a. Settled(c) \cap gated = {} /\ Settled(c) \subseteq F
  BY <1>1, SettledIsLeft DEF Settled
<1>b. c.got = None
  BY <1>1 DEF Honest
<1> HIDE DEF gated
<1> DEFINE s == [c EXCEPT !.pc = "run", !.todo = p, !.missed = gated \ p,
                    !.settled = Settled(c)]
<1>8. /\ s \in ScanType /\ s.pc = "run" /\ s.found = c.found /\ s.new = c.new
      /\ s.sev = c.sev /\ s.todo = p /\ s.missed = gated \ p
      /\ s.settled = Settled(c) /\ s.got = c.got
  BY <1>1, <1>2, <1>3, <1>6, <1>a DEF ScanType
<1>9. Put(r, s)
  BY <1>5
<1> HIDE DEF s
<1>10. Honest(s)
  <2>1. \A f \in s.settled : s.got[f] = "none"
    BY <1>8, <1>a, <1>b, NoneType
  <2>2. s.settled \cap s.todo = {}
    BY <1>6, <1>8, <1>a
  <2> QED  BY <1>3, <1>4, <1>8, <2>1, <2>2 DEF Honest
<1> QED  BY <1>1, <1>7, <1>8, <1>9, <1>10, MovingStep

LEMMA InvestigateStep == ASSUME Inv, NEW r \in Runners, Investigate(r) PROVE Inv'
<1>1. scan[r] \in ScanType /\ Honest(scan[r]) /\ scan[r].pc = "run"
  BY DEF Inv, TypeOK, Investigate
<1>2. PICK f \in scan[r].todo, c \in Confidences :
        Put(r, [scan[r] EXCEPT !.todo = @ \ {f}, !.got[f] = c,
                   !.missed = IF c = "none" THEN @ \cup {f} ELSE @])
  BY DEF Investigate
<1>3. UNCHANGED <<stored, investigated, redo, owed, excused>>
  BY DEF Investigate
<1>4. f \in F /\ scan[r].got \in Memory
  BY <1>1, Fields
<1> DEFINE g == [scan[r].got EXCEPT ![f] = c]
           m == IF c = "none" THEN scan[r].missed \cup {f} ELSE scan[r].missed
           s == [scan[r] EXCEPT !.todo = @ \ {f}, !.got = g, !.missed = m]
<1>5. Put(r, s)
  BY <1>2
<1>6. g \in Memory /\ g[f] = c /\ \A h \in F \ {f} : g[h] = scan[r].got[h]
  BY <1>4 DEF Memory
<1>7. m \subseteq F /\ scan[r].missed \subseteq m /\ (c = "none" => f \in m)
  BY <1>1, <1>4, Fields
<1> HIDE DEF g, m
<1>8. /\ s \in ScanType /\ s.pc = "run" /\ s.found = scan[r].found /\ s.new = scan[r].new
      /\ s.sev = scan[r].sev /\ s.todo = scan[r].todo \ {f} /\ s.missed = m /\ s.got = g
      /\ s.settled = scan[r].settled
  BY <1>1, <1>6, <1>7 DEF ScanType, Memory
<1> HIDE DEF s
<1>9. Honest(s)
  <2>1. \A h \in s.new : h \in F
    BY <1>8, Fields
  <2>2. ASSUME NEW h \in s.new, Serious(s.sev[h]), Kind[h] # "offline"
        PROVE  h \in s.todo \/ h \in s.missed \/ s.got[h] # "none"
    BY <1>1, <1>6, <1>7, <1>8, <2>1, <2>2 DEF Honest
  <2>3. scan[r].settled \cap scan[r].todo = {} /\ scan[r].settled \subseteq F
        /\ \A h \in scan[r].settled : scan[r].got[h] = "none"
    BY <1>1, Fields DEF Honest
  <2>4. s.settled \cap s.todo = {} /\ \A h \in s.settled : s.got[h] = "none"
    BY <1>2, <1>6, <1>8, <2>3
  <2> QED  BY <1>1, <1>8, <2>2, <2>4 DEF Honest
<1> QED  BY <1>1, <1>3, <1>5, <1>8, <1>9, MovingStep

LEMMA StopEarlyStep == ASSUME Inv, NEW r \in Runners, StopEarly(r) PROVE Inv'
<1> DEFINE s == [scan[r] EXCEPT !.todo = {}, !.missed = @ \cup scan[r].todo]
<1>1. scan[r] \in ScanType /\ Honest(scan[r]) /\ scan[r].pc = "run"
  BY DEF Inv, TypeOK, StopEarly
<1>2. /\ s \in ScanType /\ s.pc = "run" /\ s.found = scan[r].found /\ s.new = scan[r].new
      /\ s.sev = scan[r].sev /\ s.missed = scan[r].missed \cup scan[r].todo
      /\ s.got = scan[r].got /\ s.settled = scan[r].settled /\ s.todo = {}
  BY <1>1 DEF ScanType
<1>3. Put(r, s) /\ UNCHANGED <<stored, investigated, redo, owed, excused>>
  BY DEF StopEarly
<1> HIDE DEF s
<1>4. Honest(s)
  BY <1>1, <1>2 DEF Honest
<1> QED  BY <1>1, <1>2, <1>3, <1>4, MovingStep

LEMMA StoreStep == ASSUME Inv, NEW r \in Runners, StoreFindings(r) PROVE Inv'
<1> DEFINE c == scan[r]
           s == IF c.got = None THEN NoScan
                                ELSE [NoScan EXCEPT !.pc = "invRead", !.got = c.got,
                                                    !.settled = c.settled]
<1>1. c \in ScanType /\ Honest(c) /\ c.pc = "run" /\ c.todo = {} /\ c.new \subseteq c.found
  BY DEF Inv, TypeOK, StoreFindings, Honest
<1>2. c.got \in Memory /\ c.found \subseteq F /\ c.missed \subseteq F /\ c.settled \subseteq F
  BY <1>1, Fields
<1>3. /\ s \in ScanType /\ s.pc \in {"idle", "invRead"}
      /\ c.got # None => s.pc = "invRead" /\ s.got = c.got
      /\ s.pc = "invRead" => s.got = c.got /\ s.settled = c.settled
  <2>1. CASE c.got = None
    BY <2>1, NoScanType
  <2>2. CASE c.got # None
    BY <2>2, <1>2, NoScanType DEF ScanType, Memory
  <2> QED  BY <2>1, <2>2
<1>4. Put(r, s)
  BY DEF StoreFindings
<1>5. /\ stored' = c.found
      /\ owed' = (owed \cap stored') \cup
             {f \in c.new : Serious(c.sev[f]) /\ Kind[f] # "offline"}
      /\ excused' = (excused \cap stored') \cup c.missed
      /\ UNCHANGED <<investigated, redo>>
  BY DEF StoreFindings
<1> HIDE DEF s
<1>6. /\ scan' \in [Runners -> ScanType] /\ scan'[r] = s
      /\ \A q \in Runners \ {r} : scan'[q] = scan[q]
  BY <1>3, <1>4, PutScan DEF Inv
<1>7. TypeOK'
  BY <1>1, <1>2, <1>5, <1>6 DEF Inv, TypeOK
<1>8. \A q \in Runners : Honest(scan'[q])
  <2>1. \A f \in c.settled : c.got[f] = "none"
    BY <1>1 DEF Honest
  <2>2. Honest(s)
    BY <1>3, <2>1 DEF Honest
  <2> QED  BY <1>6, <2>2 DEF Inv
<1>9. ASSUME NEW f \in owed' PROVE investigated'[f] # "none" \/ Pending(f)' \/ f \in excused'
  <2>1. CASE f \in owed
    <3>1. investigated[f] # "none" \/ Pending(f) \/ f \in excused
      BY <2>1 DEF Inv, NothingForgotten
    <3>2. Pending(f) => Pending(f)'
      BY <1>1, <1>6 DEF Pending
    <3>3. f \in stored'
      BY <1>7, <1>9 DEF TypeOK
    <3> QED  BY <1>5, <3>1, <3>2, <3>3
  <2>2. CASE f \notin owed
    <3>1. f \in c.new /\ Serious(c.sev[f]) /\ Kind[f] # "offline" /\ f \in F
      BY <2>2, <1>1, <1>2, <1>5, <1>9
    <3>2. f \in c.missed \/ c.got[f] # "none"
      BY <1>1, <3>1 DEF Honest
    <3>3. ASSUME c.got[f] # "none" PROVE Pending(f)'
      <4>1. c.got # None
        BY <3>1, <3>3, NoneType
      <4>2. scan'[r].pc = "invRead" /\ scan'[r].got[f] # "none"
        BY <1>3, <1>6, <3>3, <4>1
      <4> QED  BY <4>2 DEF Pending
    <3> QED  BY <1>5, <3>2, <3>3
  <2> QED  BY <2>1, <2>2
<1> QED  BY <1>7, <1>8, <1>9 DEF Inv, NothingForgotten

LEMMA InvReadStep == ASSUME Inv, NEW r \in Runners, InvRead(r) PROVE Inv'
<1> DEFINE s == [scan[r] EXCEPT !.pc = "invWrite", !.copy = investigated]
<1>1. scan[r] \in ScanType /\ scan[r].pc = "invRead" /\ investigated \in Memory
  BY DEF Inv, TypeOK, InvRead, Memory
<1>2. s \in ScanType /\ s.pc = "invWrite" /\ s.got = scan[r].got
      /\ s.settled = scan[r].settled
  BY <1>1 DEF ScanType, Memory
<1>3. Put(r, s) /\ UNCHANGED <<stored, investigated, redo, owed, excused>>
  BY DEF InvRead
<1> HIDE DEF s
<1>4. Honest(s)
  BY <1>1, <1>2 DEF Inv, Honest
<1> QED  BY <1>2, <1>3, <1>4, MovingStep

\* A value written back keeps every investigation, or excuses its finding.
LEMMA WritingStep ==
    ASSUME Inv, NEW copy \in Memory, NEW value \in Memory, WriteBack(copy, value),
           \A f \in F : copy[f] # "none" => value[f] # "none"
    PROVE  /\ investigated' \in Memory /\ excused' \subseteq F
           /\ \A f \in F : investigated[f] # "none"
                             => investigated'[f] # "none" \/ f \in excused'
           /\ excused \subseteq excused'
BY DEF WriteBack, Inv, TypeOK

LEMMA InvWriteStep == ASSUME Inv, NEW r \in Runners, InvWrite(r) PROVE Inv'
<1> DEFINE c == scan[r]
           value == Merge(c.copy, c.got)
<1>1. c \in ScanType /\ c.got \in Memory /\ c.copy \in Memory
  BY Fields DEF Inv, TypeOK
<1>2. /\ value \in Memory
      /\ \A f \in F : value[f] = IF c.got[f] = "none" THEN c.copy[f] ELSE c.got[f]
  BY <1>1 DEF Merge, Memory
<1>3. WriteBack(c.copy, value) /\ Put(r, NoScan) /\ UNCHANGED <<stored, redo, owed>>
  BY DEF InvWrite
<1> HIDE DEF value
<1>4. /\ investigated' \in Memory /\ excused' \subseteq F
      /\ \A f \in F : investigated[f] # "none"
                        => investigated'[f] # "none" \/ f \in excused'
      /\ excused \subseteq excused'
  BY <1>1, <1>2, <1>3, WritingStep
<1>5. /\ scan' \in [Runners -> ScanType] /\ scan'[r] = NoScan
      /\ \A q \in Runners \ {r} : scan'[q] = scan[q]
  BY <1>3, NoScanType, PutScan DEF Inv
<1>6. TypeOK'
  BY <1>3, <1>4, <1>5 DEF Inv, TypeOK, Memory
<1>7. ASSUME NEW f \in F, Pending(f) PROVE investigated'[f] # "none" \/ Pending(f)'
  <2>1. PICK q \in Runners : scan[q].pc \in {"invRead", "invWrite"} /\ scan[q].got[f] # "none"
    BY <1>7 DEF Pending
  <2>2. CASE q = r
    BY <1>2, <1>3, <2>1, <2>2 DEF WriteBack
  <2>3. CASE q # r
    BY <1>5, <2>1, <2>3 DEF Pending
  <2> QED  BY <2>2, <2>3
<1>8. NothingForgotten'
  BY <1>3, <1>4, <1>7 DEF Inv, NothingForgotten, TypeOK
<1>9. \A q \in Runners : Honest(scan'[q])
  BY <1>5, NoScanType DEF Inv
<1> QED  BY <1>6, <1>8, <1>9 DEF Inv

LEMMA AbortStep == ASSUME Inv, NEW r \in Runners, Abort(r) PROVE Inv'
<1>1. Put(r, NoScan) /\ UNCHANGED <<stored, investigated, redo, owed>>
      /\ excused' = IF scan[r].pc \in {"invRead", "invWrite"}
                      THEN excused \cup {f \in F : scan[r].got[f] # "none"} ELSE excused
  BY DEF Abort
<1>2. /\ scan' \in [Runners -> ScanType] /\ scan'[r] = NoScan
      /\ \A q \in Runners \ {r} : scan'[q] = scan[q]
  BY <1>1, NoScanType, PutScan DEF Inv
<1>3. TypeOK'
  BY <1>1, <1>2 DEF Inv, TypeOK
<1>4. ASSUME NEW f \in F, Pending(f) PROVE f \in excused' \/ Pending(f)'
  <2>1. PICK q \in Runners : scan[q].pc \in {"invRead", "invWrite"} /\ scan[q].got[f] # "none"
    BY <1>4 DEF Pending
  <2>2. CASE q = r
    BY <1>1, <2>1, <2>2
  <2>3. CASE q # r
    BY <1>2, <2>1, <2>3 DEF Pending
  <2> QED  BY <2>2, <2>3
<1>5. excused \subseteq excused'
  BY <1>1
<1>6. NothingForgotten'
  BY <1>1, <1>4, <1>5 DEF Inv, NothingForgotten, TypeOK
<1>7. \A q \in Runners : Honest(scan'[q])
  BY <1>2, NoScanType DEF Inv
<1> QED  BY <1>3, <1>6, <1>7 DEF Inv

LEMMA RequestStep ==
    ASSUME Inv, RedoStart \/ RedoRead \/ RedoWrite \/ Reset PROVE Inv'
<1> DEFINE RedoType == [pc : {"idle", "read", "write"}, fps : SUBSET F, copy : Memory]
<1>a. /\ redo \in RedoType /\ stored \subseteq F /\ investigated \in Memory
      /\ owed \subseteq stored /\ excused \subseteq F /\ scan \in [Runners -> ScanType]
      /\ \A r \in Runners : Honest(scan[r])
  BY DEF Inv, TypeOK, Memory
<1>b. NoRedo \in RedoType
  BY NoneType DEF NoRedo
<1>c. UNCHANGED scan => (\A r \in Runners : Honest(scan'[r]))
                        /\ \A f \in F : Pending(f) => Pending(f)'
  BY <1>a DEF Pending
<1>1. ASSUME redo' \in RedoType, UNCHANGED <<stored, investigated, scan, owed, excused>>
      PROVE  Inv'
  <2>1. TypeOK'
    BY <1>1 DEF Inv, TypeOK, Memory
  <2>2. NothingForgotten'
    BY <1>1, <1>a, <1>c DEF Inv, NothingForgotten
  <2> QED  BY <1>1, <1>c, <2>1, <2>2 DEF Inv
<1>2. CASE RedoStart
  <2>1. PICK f \in stored : redo' = [redo EXCEPT !.pc = "read", !.fps = {f}]
    BY <1>2 DEF RedoStart
  <2>2. redo' \in RedoType
    BY <2>1, <1>a
  <2> HIDE DEF RedoType
  <2> QED  BY <1>1, <1>2, <2>2 DEF RedoStart
<1>3. CASE RedoRead
  BY <1>1, <1>3, <1>a, <1>b DEF RedoRead
<1>4. CASE RedoWrite
  <2>1. PICK c \in Confidences \ {"none"} :
          WriteBack(redo.copy, [f \in F |-> IF f \in redo.fps THEN c ELSE redo.copy[f]])
    BY <1>4 DEF RedoWrite
  <2> DEFINE value == [f \in F |-> IF f \in redo.fps THEN c ELSE redo.copy[f]]
  <2>2. value \in Memory /\ redo.copy \in Memory
        /\ \A f \in F : redo.copy[f] # "none" => value[f] # "none"
    BY <1>a DEF Memory
  <2> HIDE DEF value
  <2>3. WriteBack(redo.copy, value)
    BY <2>1 DEF value
  <2>4. /\ investigated' \in Memory /\ excused' \subseteq F
        /\ \A f \in F : investigated[f] # "none"
                          => investigated'[f] # "none" \/ f \in excused'
        /\ excused \subseteq excused'
    BY <2>2, <2>3, WritingStep
  <2>5. redo' = NoRedo /\ UNCHANGED <<stored, scan, owed>>
    BY <1>4 DEF RedoWrite
  <2>6. TypeOK'
    BY <1>a, <1>b, <2>4, <2>5 DEF TypeOK, Memory
  <2>7. NothingForgotten'
    BY <1>a, <1>c, <2>4, <2>5 DEF Inv, NothingForgotten
  <2> QED  BY <1>c, <2>5, <2>6, <2>7 DEF Inv
<1>5. CASE Reset
  <2>1. TypeOK'
    BY <1>5, <1>a, NoneType DEF Reset, TypeOK, Memory
  <2> QED  BY <1>5, <1>c, <2>1 DEF Reset, Inv, NothingForgotten
<1> QED  BY <1>2, <1>3, <1>4, <1>5

LEMMA StepInv == Inv /\ [Next]_vars => Inv'
<1> SUFFICES ASSUME Inv, [Next]_vars PROVE Inv'
  OBVIOUS
<1>1. ASSUME NEW r \in Runners,
             \/ Detect(r) \/ Compare(r) \/ Plan(r) \/ Investigate(r) \/ StopEarly(r)
             \/ StoreFindings(r) \/ InvRead(r) \/ InvWrite(r) \/ Abort(r)
      PROVE  Inv'
  BY <1>1, DetectStep, CompareStep, PlanStep, InvestigateStep, StopEarlyStep, StoreStep,
     InvReadStep, InvWriteStep, AbortStep
<1>2. CASE UNCHANGED vars
  BY <1>2 DEF vars, Inv, TypeOK, NothingForgotten, Pending
<1> QED  BY <1>1, <1>2, RequestStep DEF Next

\* Every reachable state is well typed, and what is owed an investigation is
\* among the stored findings.
THEOREM TypeCorrect == Spec => []TypeOK
BY InitInv, StepInv, PTL DEF Spec, Inv

\* No scan, of whatever kind and beside whatever others, stores a new critical
\* or warning finding without its investigation and without a reason.
THEOREM Accounted == Spec => []NothingForgotten
BY InitInv, StepInv, PTL DEF Spec, Inv

\* UI, command line and scheduler investigate the same in a regular scan.
THEOREM Agreement == Spec => []PlansAgree
<1>1. Inv => PlansAgree
  <2> SUFFICES ASSUME Inv, NEW r \in Runners, scan[r].pc = "plan"
               PROVE  LET s == scan[r]
                          Of(mode) == Gated(mode, s.found, s.sev, s.new, investigated)
                      IN Of("ui") = Of("sched") /\ Of("cli") = Of("sched")
    BY DEF PlansAgree
  <2>1. \A f \in scan[r].found : scan[r].sev[f] \in SeveritiesOf(f)
    BY DEF Inv, Honest
  <2> QED  BY <2>1, SamePlan
<1> QED  BY <1>1, InitInv, StepInv, PTL DEF Spec

\* Whatever scans run beside each other: a sure answer on record when a scan
\* planned, which that scan had no business with, outlives it.
THEOREM AnswersStand == Spec => SureAnswersStand
<1> DEFINE Excuse(f) ==
             \/ Reset \/ RedoWrite
             \/ \E r \in Runners :
                   InvWrite(r) /\ (scan[r].copy # investigated \/ f \notin scan[r].settled)
           A == \A f \in F : investigated[f] = "high" /\ investigated'[f] # "high" => Excuse(f)
<1>1. ASSUME Inv, NEW r \in Runners, InvWrite(r), scan[r].copy = investigated,
             NEW f \in scan[r].settled
      PROVE  investigated'[f] = investigated[f]
  <2>1. scan[r] \in ScanType /\ scan[r].pc = "invWrite" /\ scan[r].got[f] = "none"
    BY <1>1 DEF Inv, TypeOK, Honest, InvWrite
  <2>2. investigated' = Merge(investigated, scan[r].got) /\ f \in F
    BY <1>1, <2>1, Fields DEF InvWrite, WriteBack
  <2> QED  BY <2>1, <2>2 DEF Merge
<1>2. Inv /\ [Next]_vars => [A]_vars
  <2> SUFFICES ASSUME Inv, [Next]_vars, NEW f \in F, investigated[f] = "high",
                      investigated'[f] # "high"
               PROVE  Excuse(f)
    OBVIOUS
  <2>1. ASSUME NEW r \in Runners, InvWrite(r) PROVE Excuse(f)
    BY <1>1, <2>1
  <2>2. CASE Reset \/ RedoWrite
    BY <2>2
  <2>3. ASSUME NEW r \in Runners,
               \/ Detect(r) \/ Compare(r) \/ Plan(r) \/ Investigate(r) \/ StopEarly(r)
               \/ StoreFindings(r) \/ InvRead(r) \/ Abort(r)
        PROVE  FALSE
    BY <2>3 DEF Detect, Compare, Plan, Investigate, StopEarly, StoreFindings, InvRead, Abort
  <2>4. CASE RedoStart \/ RedoRead \/ UNCHANGED vars
    BY <2>4 DEF RedoStart, RedoRead, vars
  <2> HIDE DEF Excuse
  <2> QED  BY <2>1, <2>2, <2>3, <2>4 DEF Next
<1>3. Spec => []Inv
  BY InitInv, StepInv, PTL DEF Spec
<1> QED  BY <1>2, <1>3, PTL DEF Spec, SureAnswersStand

=============================================================================
