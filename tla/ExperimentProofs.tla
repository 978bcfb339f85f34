-------------------------- MODULE ExperimentProofs --------------------------
(***************************************************************************)
(* Proofs about Experiment for any matrix, any sizes of the load and any   *)
(* number of launches, and about the population's shares for any mix.      *)
(***************************************************************************)
EXTENDS Experiment, FiniteSetTheorems, SequenceTheorems, TLAPS

Assumptions == MatrixAssumption /\ LoadAssumption

PCs == {"idle", "population", "configure", "up", "wait", "flush", "launch", "load", "read"}
DriverType == [pc : PCs, launch : 0 .. LaunchBound, run : DOMAIN Matrix, n : LoadSizes,
               waits_for : AccessClass]
AdmissionType == [run : RunIds \cup {NoRun}, mode : {"none", "baseline", "aaac"},
                  serving : BOOLEAN, buffer : [Tickets -> Seq(TicketEvents)]]
States == {"NONE", "WAITING", "ADMITTED", "COMPLETED", "GHOST"}
TicketsType == [RunIds -> [Tickets -> States]]

DriverOK ==
    /\ driver \in DriverType
    /\ populations \in [Seeds -> LoadSizes \cup {0}]
    /\ config \in RunIds \cup {NoRun}
    /\ drove \in [1 .. LaunchBound -> LoadSizes \cup {0}]

ServiceOK ==
    /\ admission \in AdmissionType
    /\ tickets \in TicketsType
    /\ handling \subseteq Tickets /\ timeouts \in 0 .. TimeoutBound
    /\ files \in [RunIds -> Log]

CrowdOK ==
    /\ load \in [AccessClass -> {"none", "running", "ok", "failed"}]
    /\ session \in [Clients -> {"scheduled", "polling", "fetching"} \cup Outcomes]

RecordsOK == records \in Seq(RunRecord)

\* From its creation on a container serves the run it was created for, in the
\* mode of that run, and the container of the current run is the one it has.
ModeOK ==
    /\ admission.run # NoRun => admission.mode = admission.run.mode
    /\ handling # {} => admission.run # NoRun
    /\ driver.pc = "up" => config = Run
    /\ driver.pc \in {"wait", "flush", "launch", "load", "read"} => admission.run = Run

\* The population of the current run has the size the driver started with.
PopulationOK ==
    driver.pc \notin {"idle", "population"} => populations[Run.seed] = driver.n

\* The generators before the one that is waited for have ended.
LoadOK ==
    /\ NoLoadLeftBehind
    /\ driver.pc = "load" => \A c \in AccessClass : c < driver.waits_for => load[c] = "ok"
    /\ driver.pc = "launch" => driver.launch < LaunchBound
    /\ driver.pc \in {"load", "read"} => driver.launch > 0

\* FLUSHALL leaves no ticket, and then only clients of this launch join.
TicketsOK ==
    /\ driver.pc = "launch" => \A t \in Tickets : tickets[Run][t] \in {"NONE", "GHOST"}
    /\ OnlyOwnTicketsServed

IInv ==
    /\ DriverOK /\ ServiceOK /\ CrowdOK /\ RecordsOK
    /\ ModeOK /\ PopulationOK /\ LoadOK /\ TicketsOK /\ OneModePerLog
-----------------------------------------------------------------------------
(* What a step does to a record or to a table *)

LEMMA RunIsRun ==
    ASSUME driver \in DriverType
    PROVE  Run \in RunIds /\ Run.seed \in Seeds
  BY DEF DriverType, Run, RunIds, Seeds

LEMMA RunTypes ==
    ASSUME MatrixAssumption, NEW r \in RunIds
    PROVE  /\ r.seed \in Nat /\ r.mode \in {"none", "baseline", "aaac"} /\ r.seed \in Seeds
           /\ r # NoRun
<1>1. PICK i \in DOMAIN Matrix : r = Matrix[i]
  BY DEF RunIds
<1> DEFINE runs == [seed : Nat, mode : {"none", "baseline", "aaac"}]
<1>2. r \in runs
  <2>1. Matrix \in Seq(runs)
    BY DEF MatrixAssumption
  <2> HIDE DEF runs
  <2> QED BY <1>1, <2>1
<1>3. r.seed \in Nat /\ r.mode \in {"none", "baseline", "aaac"}
  BY <1>2
<1>4. r # NoRun
  BY <1>3 DEF NoRun
<1> QED BY <1>3, <1>4 DEF Seeds

LEMMA FirstRun ==
    ASSUME MatrixAssumption
    PROVE  1 \in DOMAIN Matrix /\ DOMAIN Matrix \in SUBSET Nat
  BY DEF MatrixAssumption

LEMMA GotoFacts ==
    ASSUME driver \in DriverType, NEW p \in PCs, driver' = [driver EXCEPT !.pc = p]
    PROVE  /\ driver' \in DriverType /\ driver'.pc = p
           /\ driver'.run = driver.run /\ driver'.n = driver.n
           /\ driver'.launch = driver.launch /\ driver'.waits_for = driver.waits_for
  BY DEF DriverType

LEMMA BufferFacts ==
    ASSUME admission \in AdmissionType, NEW t \in Tickets, NEW b \in Seq(TicketEvents),
           admission' = [admission EXCEPT !.buffer[t] = b]
    PROVE  /\ admission' \in AdmissionType
           /\ admission'.run = admission.run /\ admission'.mode = admission.mode
  BY DEF AdmissionType

LEMMA LoggedFacts ==
    ASSUME admission \in AdmissionType, NEW t \in Tickets, NEW e \in TicketEvents, Logged(t, e)
    PROVE  /\ admission' \in AdmissionType
           /\ admission'.run = admission.run /\ admission'.mode = admission.mode
<1>1. PICK b : b = Append(admission.buffer[t], e)
  OBVIOUS
<1>2. b \in Seq(TicketEvents)
  BY <1>1 DEF AdmissionType
<1>3. admission' = [admission EXCEPT !.buffer[t] = b]
  BY <1>1 DEF Logged
<1> QED BY <1>2, <1>3, BufferFacts

\* Of the files of f only that of r changes its modes, in g.
ModesAre(g, f, r, m) == \A q \in RunIds : g[q].modes = (IF q = r THEN m ELSE f[q].modes)

\* The file of a run names a mode, and gets a line.
LEMMA FileNamesMode ==
    ASSUME NEW f \in [RunIds -> Log], NEW r \in RunIds,
           NEW m \in SUBSET {"none", "baseline", "aaac"}
    PROVE  /\ [f EXCEPT ![r].modes = m] \in [RunIds -> Log]
           /\ ModesAre([f EXCEPT ![r].modes = m], f, r, m)
           /\ [f EXCEPT ![r].modes = m][r].tickets = f[r].tickets
  BY DEF Log, ModesAre

LEMMA FileGetsLine ==
    ASSUME NEW f \in [RunIds -> Log], NEW r \in RunIds, NEW t \in Tickets,
           NEW line \in Seq(TicketEvents)
    PROVE  /\ [f EXCEPT ![r].tickets[t] = line] \in [RunIds -> Log]
           /\ ModesAre([f EXCEPT ![r].tickets[t] = line], f, r, f[r].modes)
  BY DEF Log, ModesAre

\* Of the tickets only t of r changes its state.
TicketsAre(r, t, s) ==
    \A q \in RunIds, u \in Tickets :
        tickets'[q][u] = IF q = r /\ u = t THEN s ELSE tickets[q][u]

LEMMA TicketFacts ==
    ASSUME tickets \in TicketsType, NEW r \in RunIds, NEW t \in Tickets, NEW s \in States,
           tickets' = [tickets EXCEPT ![r][t] = s]
    PROVE  /\ tickets' \in TicketsType
           /\ TicketsAre(r, t, s)
  BY DEF TicketsType, TicketsAre

LEMMA StartKeepsInv ==
    ASSUME Assumptions, IInv, Start
    PROVE  IInv'
<1> USE DEF Start, stack, crowd
<1>1. driver \in DriverType /\ Run \in RunIds /\ Run.seed \in Seeds
  BY RunIsRun DEF IInv, DriverOK
<1>2. PICK n \in LoadSizes : driver' = [driver EXCEPT !.pc = "population", !.run = 1, !.n = n]
  BY DEF LoadAssumption, Assumptions
<1>3. driver' \in DriverType /\ driver'.pc = "population"
  BY <1>1, <1>2, FirstRun DEF DriverType, PCs, Assumptions
<1>4. DriverOK'
  BY <1>1, <1>3 DEF IInv, DriverOK
<1>5. ServiceOK'
  BY <1>1, <1>3 DEF IInv, ServiceOK
<1>6. CrowdOK'
  BY <1>1, <1>3 DEF IInv, CrowdOK
<1>7. RecordsOK'
  BY <1>1, <1>3 DEF IInv, RecordsOK
<1>8. ModeOK'
  BY <1>1, <1>3 DEF IInv, ModeOK, Run
<1>9. PopulationOK'
  BY <1>1, <1>3 DEF IInv, PopulationOK, Run
<1>10. LoadOK'
  BY <1>1, <1>3 DEF IInv, LoadOK, NoLoadLeftBehind
<1>11. TicketsOK'
  BY <1>1, <1>3 DEF IInv, TicketsOK, OnlyOwnTicketsServed, Run
<1>12. OneModePerLog'
  BY <1>1, <1>3 DEF IInv, OneModePerLog
<1> QED
  BY <1>4, <1>5, <1>6, <1>7, <1>8, <1>9, <1>10, <1>11, <1>12 DEF IInv

LEMMA WriteConfigKeepsInv ==
    ASSUME Assumptions, IInv, WriteConfig
    PROVE  IInv'
<1> USE DEF WriteConfig, stack, crowd
<1>1. driver \in DriverType /\ Run \in RunIds /\ Run.seed \in Seeds
  BY RunIsRun DEF IInv, DriverOK
<1>2. driver' \in DriverType /\ driver'.pc = "up" /\ Run' = Run /\ driver'.n = driver.n
      /\ driver'.launch = driver.launch /\ driver'.waits_for = driver.waits_for
  BY <1>1, GotoFacts DEF PCs, Goto, Run
<1>3. records' = records
  BY DEF Goto
<1>4. DriverOK'
  BY <1>1, <1>2, <1>3 DEF IInv, DriverOK
<1>5. ServiceOK'
  BY <1>1, <1>2, <1>3 DEF IInv, ServiceOK
<1>6. CrowdOK'
  BY <1>1, <1>2, <1>3 DEF IInv, CrowdOK
<1>7. RecordsOK'
  BY <1>1, <1>2, <1>3 DEF IInv, RecordsOK
<1>8. ModeOK'
  BY <1>1, <1>2, <1>3 DEF IInv, ModeOK, Run
<1>9. PopulationOK'
  BY <1>1, <1>2, <1>3 DEF IInv, PopulationOK, Run
<1>10. LoadOK'
  BY <1>1, <1>2, <1>3 DEF IInv, LoadOK, NoLoadLeftBehind
<1>11. TicketsOK'
  BY <1>1, <1>2, <1>3 DEF IInv, TicketsOK, OnlyOwnTicketsServed, Run
<1>12. OneModePerLog'
  BY <1>1, <1>2, <1>3 DEF IInv, OneModePerLog
<1> QED
  BY <1>4, <1>5, <1>6, <1>7, <1>8, <1>9, <1>10, <1>11, <1>12 DEF IInv

LEMMA RecreateServicesKeepsInv ==
    ASSUME Assumptions, IInv, RecreateServices
    PROVE  IInv'
<1> USE DEF RecreateServices, stack, crowd
<1>1. driver \in DriverType /\ Run \in RunIds /\ Run.seed \in Seeds
  BY RunIsRun DEF IInv, DriverOK
<1>2. driver' \in DriverType /\ driver'.pc = "wait" /\ Run' = Run /\ driver'.n = driver.n
      /\ driver'.launch = driver.launch /\ driver'.waits_for = driver.waits_for
  BY <1>1, GotoFacts DEF PCs, Goto, Run
<1>3. records' = records
  BY DEF Goto
<1>4. config = Run /\ Run # NoRun /\ Run.mode \in {"none", "baseline", "aaac"}
  BY <1>1, RunTypes DEF IInv, ModeOK, Assumptions
<1>5. NoLines \in [Tickets -> Seq(TicketEvents)]
  BY EmptySeq DEF NoLines
<1>6. admission' \in AdmissionType /\ admission'.run = Run /\ admission'.mode = Run.mode
  BY <1>1, <1>4, <1>5 DEF AdmissionType
<1>7. DriverOK'
  BY <1>1, <1>2, <1>3, <1>4, <1>6 DEF IInv, DriverOK
<1>8. ServiceOK'
  BY <1>1, <1>2, <1>3, <1>4, <1>6 DEF IInv, ServiceOK
<1>9. CrowdOK'
  BY <1>1, <1>2, <1>3, <1>4, <1>6 DEF IInv, CrowdOK
<1>10. RecordsOK'
  BY <1>1, <1>2, <1>3, <1>4, <1>6 DEF IInv, RecordsOK
<1>11. ModeOK'
  BY <1>1, <1>2, <1>3, <1>4, <1>6 DEF IInv, ModeOK, Run
<1>12. PopulationOK'
  BY <1>1, <1>2, <1>3, <1>4, <1>6 DEF IInv, PopulationOK, Run
<1>13. LoadOK'
  BY <1>1, <1>2, <1>3, <1>4, <1>6 DEF IInv, LoadOK, NoLoadLeftBehind
<1>14. TicketsOK'
  BY <1>1, <1>2, <1>3, <1>4, <1>6 DEF IInv, TicketsOK, OnlyOwnTicketsServed, Run
<1>15. OneModePerLog'
  BY <1>1, <1>2, <1>3, <1>4, <1>6 DEF IInv, OneModePerLog
<1> QED
  BY <1>7, <1>8, <1>9, <1>10, <1>11, <1>12, <1>13, <1>14, <1>15 DEF IInv

LEMMA UpFailsKeepsInv ==
    ASSUME Assumptions, IInv, UpFails
    PROVE  IInv'
<1> USE DEF UpFails, stack, crowd
<1>1. driver \in DriverType /\ Run \in RunIds /\ Run.seed \in Seeds
  BY RunIsRun DEF IInv, DriverOK
<1>2. driver' \in DriverType /\ driver'.pc = "idle" /\ records' \in Seq(RunRecord)
  BY <1>1, GotoFacts, EmptySeq DEF PCs, Fail
<1>3. DriverOK'
  BY <1>1, <1>2 DEF IInv, DriverOK
<1>4. ServiceOK'
  BY <1>1, <1>2 DEF IInv, ServiceOK
<1>5. CrowdOK'
  BY <1>1, <1>2 DEF IInv, CrowdOK
<1>6. RecordsOK'
  BY <1>1, <1>2 DEF IInv, RecordsOK
<1>7. ModeOK'
  BY <1>1, <1>2 DEF IInv, ModeOK, Run
<1>8. PopulationOK'
  BY <1>1, <1>2 DEF IInv, PopulationOK, Run
<1>9. LoadOK'
  BY <1>1, <1>2 DEF IInv, LoadOK, NoLoadLeftBehind
<1>10. TicketsOK'
  BY <1>1, <1>2 DEF IInv, TicketsOK, OnlyOwnTicketsServed, Run
<1>11. OneModePerLog'
  BY <1>1, <1>2 DEF IInv, OneModePerLog
<1> QED
  BY <1>3, <1>4, <1>5, <1>6, <1>7, <1>8, <1>9, <1>10, <1>11 DEF IInv

LEMMA wait_for_admissionKeepsInv ==
    ASSUME Assumptions, IInv, wait_for_admission
    PROVE  IInv'
<1> USE DEF wait_for_admission, stack, crowd
<1>1. driver \in DriverType /\ Run \in RunIds /\ Run.seed \in Seeds
  BY RunIsRun DEF IInv, DriverOK
<1>2. driver' \in DriverType /\ driver'.pc \in {"flush", "idle"} /\ Run' = Run /\ driver'.n = driver.n
  BY <1>1, GotoFacts DEF PCs, Goto, Fail, Run
<1>3. records' = records \/ records' = << >>
  BY DEF Goto, Fail
<1>4. records' \in Seq(RunRecord)
  BY <1>3, EmptySeq DEF IInv, RecordsOK
<1>5. DriverOK'
  BY <1>1, <1>2, <1>4 DEF IInv, DriverOK
<1>6. ServiceOK'
  BY <1>1, <1>2, <1>4 DEF IInv, ServiceOK
<1>7. CrowdOK'
  BY <1>1, <1>2, <1>4 DEF IInv, CrowdOK
<1>8. RecordsOK'
  BY <1>1, <1>2, <1>4 DEF IInv, RecordsOK
<1>9. ModeOK'
  BY <1>1, <1>2, <1>4 DEF IInv, ModeOK, Run
<1>10. PopulationOK'
  BY <1>1, <1>2, <1>4 DEF IInv, PopulationOK, Run
<1>11. LoadOK'
  BY <1>1, <1>2, <1>4 DEF IInv, LoadOK, NoLoadLeftBehind
<1>12. TicketsOK'
  BY <1>1, <1>2, <1>4 DEF IInv, TicketsOK, OnlyOwnTicketsServed, Run
<1>13. OneModePerLog'
  BY <1>1, <1>2, <1>4 DEF IInv, OneModePerLog
<1> QED
  BY <1>5, <1>6, <1>7, <1>8, <1>9, <1>10, <1>11, <1>12, <1>13 DEF IInv

LEMMA ensure_populationKeepsInv ==
    ASSUME Assumptions, IInv, ensure_population
    PROVE  IInv'
<1> USE DEF ensure_population, stack, crowd
<1>1. driver \in DriverType /\ Run \in RunIds /\ Run.seed \in Seeds
  BY RunIsRun DEF IInv, DriverOK
<1>2. driver' \in DriverType /\ driver'.pc \in {"configure", "idle"} /\ Run' = Run /\ driver'.n = driver.n
  BY <1>1, GotoFacts DEF PCs, Goto, Fail, Run
<1>3. records' = records \/ records' = << >>
  BY DEF Goto, Fail
<1>4. records' \in Seq(RunRecord)
  BY <1>3, EmptySeq DEF IInv, RecordsOK
<1>5. driver.n \in LoadSizes
  BY <1>1 DEF DriverType
<1>6. populations' = populations \/ populations' = [populations EXCEPT ![Run.seed] = driver.n]
  OBVIOUS
<1>7. populations' = populations => driver'.pc = "idle" \/ populations[Run.seed] = driver.n
  BY <1>1, <1>5, GotoFacts DEF PCs, Fail, IInv, DriverOK
<1>8. /\ populations' \in [Seeds -> LoadSizes \cup {0}]
      /\ driver'.pc = "configure" => populations'[Run.seed] = driver.n
  BY <1>1, <1>5, <1>6, <1>7 DEF IInv, DriverOK
<1>9. DriverOK'
  BY <1>1, <1>2, <1>4, <1>8 DEF IInv, DriverOK
<1>10. ServiceOK'
  BY <1>1, <1>2, <1>4, <1>8 DEF IInv, ServiceOK
<1>11. CrowdOK'
  BY <1>1, <1>2, <1>4, <1>8 DEF IInv, CrowdOK
<1>12. RecordsOK'
  BY <1>1, <1>2, <1>4, <1>8 DEF IInv, RecordsOK
<1>13. ModeOK'
  BY <1>1, <1>2, <1>4, <1>8 DEF IInv, ModeOK, Run
<1>14. PopulationOK'
  BY <1>1, <1>2, <1>4, <1>8 DEF IInv, PopulationOK, Run
<1>15. LoadOK'
  BY <1>1, <1>2, <1>4, <1>8 DEF IInv, LoadOK, NoLoadLeftBehind
<1>16. TicketsOK'
  BY <1>1, <1>2, <1>4, <1>8 DEF IInv, TicketsOK, OnlyOwnTicketsServed, Run
<1>17. OneModePerLog'
  BY <1>1, <1>2, <1>4, <1>8 DEF IInv, OneModePerLog
<1> QED
  BY <1>9, <1>10, <1>11, <1>12, <1>13, <1>14, <1>15, <1>16, <1>17 DEF IInv

LEMMA FlushAllKeepsInv ==
    ASSUME Assumptions, IInv, FlushAll
    PROVE  IInv'
<1> USE DEF FlushAll, stack, crowd
<1>1. driver \in DriverType /\ Run \in RunIds /\ Run.seed \in Seeds
  BY RunIsRun DEF IInv, DriverOK
<1>2. /\ driver' \in DriverType /\ driver'.pc \in {"launch", "idle"}
      /\ Run' = Run /\ driver'.n = driver.n /\ driver'.launch = driver.launch
  BY <1>1, GotoFacts DEF PCs, Goto, Fail, Run
<1>3. records' = records \/ records' = << >>
  BY DEF Goto, Fail
<1>4. records' \in Seq(RunRecord)
  BY <1>3, EmptySeq DEF IInv, RecordsOK
<1>5. Fail => driver'.pc = "idle"
  BY <1>1, GotoFacts DEF PCs, Fail
<1>6. tickets \in TicketsType
  BY DEF IInv, ServiceOK
<1>7. /\ tickets' \in TicketsType
      /\ driver'.pc = "launch" => /\ driver.launch < LaunchBound
                                 /\ \A t \in Tickets : tickets'[Run][t] = "NONE"
  BY <1>1, <1>2, <1>5, <1>6 DEF TicketsType, States
<1>8. DriverOK'
  BY <1>1, <1>2, <1>4, <1>7 DEF IInv, DriverOK
<1>9. ServiceOK'
  BY <1>1, <1>2, <1>4, <1>7 DEF IInv, ServiceOK
<1>10. CrowdOK'
  BY <1>1, <1>2, <1>4, <1>7 DEF IInv, CrowdOK
<1>11. RecordsOK'
  BY <1>1, <1>2, <1>4, <1>7 DEF IInv, RecordsOK
<1>12. ModeOK'
  BY <1>1, <1>2, <1>4, <1>7 DEF IInv, ModeOK, Run
<1>13. PopulationOK'
  BY <1>1, <1>2, <1>4, <1>7 DEF IInv, PopulationOK, Run
<1>14. LoadOK'
  BY <1>1, <1>2, <1>4, <1>7 DEF IInv, LoadOK, NoLoadLeftBehind
<1>15. TicketsOK'
  BY <1>1, <1>2, <1>4, <1>7 DEF IInv, TicketsOK, OnlyOwnTicketsServed, Run
<1>16. OneModePerLog'
  BY <1>1, <1>2, <1>4, <1>7 DEF IInv, OneModePerLog
<1> QED
  BY <1>8, <1>9, <1>10, <1>11, <1>12, <1>13, <1>14, <1>15, <1>16 DEF IInv

LEMMA LaunchKeepsInv ==
    ASSUME Assumptions, IInv, Launch
    PROVE  IInv'
<1> USE DEF Launch, stack, crowd
<1>1. driver \in DriverType /\ Run \in RunIds /\ Run.seed \in Seeds
  BY RunIsRun DEF IInv, DriverOK
<1>2. driver.launch + 1 \in 0 .. LaunchBound /\ HIGH \in AccessClass
  BY <1>1 DEF DriverType, IInv, LoadOK, AccessClass, Assumptions, LoadAssumption
<1>3. driver' \in DriverType /\ driver'.pc = "load" /\ Run' = Run /\ driver'.n = driver.n
      /\ driver'.launch = driver.launch + 1 /\ driver'.waits_for = HIGH
  BY <1>1, <1>2 DEF DriverType, PCs, Run
<1>4. \A c \in AccessClass : ~(c < HIGH)
  BY DEF AccessClass, HIGH, MEDIUM, LOW
<1>5. drove' \in [1 .. LaunchBound -> LoadSizes \cup {0}]
  BY <1>1 DEF IInv, DriverOK
<1>6. DriverOK'
  BY <1>1, <1>2, <1>3, <1>4, <1>5 DEF IInv, DriverOK
<1>7. ServiceOK'
  BY <1>1, <1>2, <1>3, <1>4, <1>5 DEF IInv, ServiceOK
<1>8. CrowdOK'
  BY <1>1, <1>2, <1>3, <1>4, <1>5 DEF IInv, CrowdOK
<1>9. RecordsOK'
  BY <1>1, <1>2, <1>3, <1>4, <1>5 DEF IInv, RecordsOK
<1>10. ModeOK'
  BY <1>1, <1>2, <1>3, <1>4, <1>5 DEF IInv, ModeOK, Run
<1>11. PopulationOK'
  BY <1>1, <1>2, <1>3, <1>4, <1>5 DEF IInv, PopulationOK, Run
<1>12. LoadOK'
  BY <1>1, <1>2, <1>3, <1>4, <1>5 DEF IInv, LoadOK, NoLoadLeftBehind
<1>13. TicketsOK'
  BY <1>1, <1>2, <1>3, <1>4, <1>5 DEF IInv, TicketsOK, OnlyOwnTicketsServed, Run
<1>14. OneModePerLog'
  BY <1>1, <1>2, <1>3, <1>4, <1>5 DEF IInv, OneModePerLog
<1> QED
  BY <1>6, <1>7, <1>8, <1>9, <1>10, <1>11, <1>12, <1>13, <1>14 DEF IInv

LEMMA AwaitGeneratorKeepsInv ==
    ASSUME Assumptions, IInv, AwaitGenerator
    PROVE  IInv'
<1> USE DEF AwaitGenerator, stack, crowd
<1>1. driver \in DriverType /\ Run \in RunIds /\ Run.seed \in Seeds
  BY RunIsRun DEF IInv, DriverOK
<1>2. /\ driver' \in DriverType /\ Run' = Run /\ driver'.n = driver.n /\ driver'.launch = driver.launch
      /\ IF driver.waits_for = LOW THEN driver'.pc = "read"
         ELSE driver'.pc = "load" /\ driver'.waits_for = driver.waits_for + 1
  BY <1>1 DEF DriverType, PCs, Run, AccessClass, HIGH, MEDIUM, LOW
<1>3. driver.waits_for \in AccessClass
  BY <1>1 DEF DriverType
<1>4. \A c \in AccessClass : (c < driver.waits_for + 1 => c < driver.waits_for \/ c = driver.waits_for)
                            /\ (c < LOW \/ c = LOW)
  BY <1>3 DEF AccessClass, HIGH, MEDIUM, LOW
<1>5. DriverOK'
  BY <1>1, <1>2, <1>3, <1>4 DEF IInv, DriverOK
<1>6. ServiceOK'
  BY <1>1, <1>2, <1>3, <1>4 DEF IInv, ServiceOK
<1>7. CrowdOK'
  BY <1>1, <1>2, <1>3, <1>4 DEF IInv, CrowdOK
<1>8. RecordsOK'
  BY <1>1, <1>2, <1>3, <1>4 DEF IInv, RecordsOK
<1>9. ModeOK'
  BY <1>1, <1>2, <1>3, <1>4 DEF IInv, ModeOK, Run
<1>10. PopulationOK'
  BY <1>1, <1>2, <1>3, <1>4 DEF IInv, PopulationOK, Run
<1>11. LoadOK'
  BY <1>1, <1>2, <1>3, <1>4 DEF IInv, LoadOK, NoLoadLeftBehind
<1>12. TicketsOK'
  BY <1>1, <1>2, <1>3, <1>4 DEF IInv, TicketsOK, OnlyOwnTicketsServed, Run
<1>13. OneModePerLog'
  BY <1>1, <1>2, <1>3, <1>4 DEF IInv, OneModePerLog
<1> QED
  BY <1>5, <1>6, <1>7, <1>8, <1>9, <1>10, <1>11, <1>12, <1>13 DEF IInv

LEMMA LoadFailsKeepsInv ==
    ASSUME Assumptions, IInv, LoadFails
    PROVE  IInv'
<1> USE DEF LoadFails, stack, crowd
<1>1. driver \in DriverType /\ Run \in RunIds /\ Run.seed \in Seeds
  BY RunIsRun DEF IInv, DriverOK
<1>2. driver' \in DriverType /\ driver'.pc = "idle" /\ records' \in Seq(RunRecord)
  BY <1>1, GotoFacts, EmptySeq DEF PCs, Fail
<1>3. DriverOK'
  BY <1>1, <1>2 DEF IInv, DriverOK
<1>4. ServiceOK'
  BY <1>1, <1>2 DEF IInv, ServiceOK
<1>5. CrowdOK'
  BY <1>1, <1>2 DEF IInv, CrowdOK
<1>6. RecordsOK'
  BY <1>1, <1>2 DEF IInv, RecordsOK
<1>7. ModeOK'
  BY <1>1, <1>2 DEF IInv, ModeOK, Run
<1>8. PopulationOK'
  BY <1>1, <1>2 DEF IInv, PopulationOK, Run
<1>9. LoadOK'
  BY <1>1, <1>2 DEF IInv, LoadOK, NoLoadLeftBehind
<1>10. TicketsOK'
  BY <1>1, <1>2 DEF IInv, TicketsOK, OnlyOwnTicketsServed, Run
<1>11. OneModePerLog'
  BY <1>1, <1>2 DEF IInv, OneModePerLog
<1> QED
  BY <1>3, <1>4, <1>5, <1>6, <1>7, <1>8, <1>9, <1>10, <1>11 DEF IInv

LEMMA GeneratorEndsKeepsInv ==
    ASSUME Assumptions, IInv, NEW c \in AccessClass, GeneratorEnds(c)
    PROVE  IInv'
<1> USE DEF GeneratorEnds, stack, crowd
<1>1. driver \in DriverType /\ Run \in RunIds /\ Run.seed \in Seeds
  BY RunIsRun DEF IInv, DriverOK
<1>2. c = driver.waits_for /\ ~(c < c)
  BY DEF AccessClass, HIGH, MEDIUM, LOW
<1>3. DriverOK'
  BY DEF IInv, DriverOK
<1>4. ServiceOK'
  BY DEF IInv, ServiceOK
<1>5. CrowdOK'
  BY DEF IInv, CrowdOK
<1>6. RecordsOK'
  BY DEF IInv, RecordsOK
<1>7. ModeOK'
  BY DEF IInv, ModeOK, Run
<1>8. PopulationOK'
  BY DEF IInv, PopulationOK, Run
<1>9. LoadOK'
  BY <1>2 DEF IInv, LoadOK, NoLoadLeftBehind, CrowdOK
<1>10. TicketsOK'
  BY DEF IInv, TicketsOK, OnlyOwnTicketsServed, Run
<1>11. OneModePerLog'
  BY DEF IInv, OneModePerLog
<1> QED
  BY <1>3, <1>4, <1>5, <1>6, <1>7, <1>8, <1>9, <1>10, <1>11 DEF IInv

LEMMA GeneratorFailsKeepsInv ==
    ASSUME Assumptions, IInv, NEW c \in AccessClass, GeneratorFails(c)
    PROVE  IInv'
<1> USE DEF GeneratorFails, stack, crowd
<1>1. driver \in DriverType /\ Run \in RunIds /\ Run.seed \in Seeds
  BY RunIsRun DEF IInv, DriverOK
<1>2. c = driver.waits_for /\ ~(c < c)
  BY DEF AccessClass, HIGH, MEDIUM, LOW
<1>3. DriverOK'
  BY DEF IInv, DriverOK
<1>4. ServiceOK'
  BY DEF IInv, ServiceOK
<1>5. CrowdOK'
  BY DEF IInv, CrowdOK
<1>6. RecordsOK'
  BY DEF IInv, RecordsOK
<1>7. ModeOK'
  BY DEF IInv, ModeOK, Run
<1>8. PopulationOK'
  BY DEF IInv, PopulationOK, Run
<1>9. LoadOK'
  BY <1>2 DEF IInv, LoadOK, NoLoadLeftBehind, CrowdOK
<1>10. TicketsOK'
  BY DEF IInv, TicketsOK, OnlyOwnTicketsServed, Run
<1>11. OneModePerLog'
  BY DEF IInv, OneModePerLog
<1> QED
  BY <1>3, <1>4, <1>5, <1>6, <1>7, <1>8, <1>9, <1>10, <1>11 DEF IInv

-----------------------------------------------------------------------------
(* Clients and service *)

LEMMA LabelType == ASSUME NEW n, NEW i PROVE label(n, i) \in AccessClass
  BY DEF label, AccessClass

LEMMA RunsFacts ==
    ASSUME Assumptions, IInv, NEW i \in Clients, Runs(i)
    PROVE  /\ driver.pc = "load" /\ admission.run = Run /\ Run \in RunIds /\ Run # NoRun
           /\ Ticket(i) \in Tickets /\ Ticket(i)[1] = driver.launch
<1>1. driver.pc = "load"
  BY LabelType DEF IInv, LoadOK, NoLoadLeftBehind, Runs
<1>2. driver.launch \in 1 .. LaunchBound
  BY <1>1 DEF IInv, DriverOK, DriverType, LoadOK, Assumptions, LoadAssumption
<1>3. admission.run = Run /\ Run \in RunIds /\ Run # NoRun
  BY <1>1, RunIsRun, RunTypes DEF IInv, ModeOK, DriverOK, Assumptions
<1> QED BY <1>1, <1>2, <1>3 DEF Ticket, Tickets

LEMMA CompleteKeepsInv ==
    ASSUME Assumptions, IInv, NEW i \in Clients, Complete(i)
    PROVE  IInv'
<1> USE DEF Complete, stack, crowd, Outcomes
<1>1. driver \in DriverType /\ Run \in RunIds /\ Run.seed \in Seeds
  BY RunIsRun DEF IInv, DriverOK
<1>2. driver.pc = "load" /\ admission.run = Run /\ Run \in RunIds /\ Run # NoRun
      /\ Ticket(i) \in Tickets /\ Ticket(i)[1] = driver.launch
  BY RunsFacts
<1>3. admission' \in AdmissionType /\ admission'.run = admission.run /\ admission'.mode = admission.mode
  BY <1>2, LoggedFacts DEF IInv, ServiceOK, TicketEvents
<1>4. /\ tickets' \in TicketsType
      /\ TicketsAre(Run, Ticket(i), "COMPLETED")
  BY <1>2, TicketFacts DEF IInv, ServiceOK, States
<1>5. DriverOK'
  BY <1>1, <1>2, <1>3, <1>4 DEF IInv, DriverOK
<1>6. ServiceOK'
  BY <1>1, <1>2, <1>3, <1>4 DEF IInv, ServiceOK
<1>7. CrowdOK'
  BY <1>1, <1>2, <1>3, <1>4 DEF IInv, CrowdOK
<1>8. RecordsOK'
  BY <1>1, <1>2, <1>3, <1>4 DEF IInv, RecordsOK
<1>9. ModeOK'
  BY <1>1, <1>2, <1>3, <1>4 DEF IInv, ModeOK, Run
<1>10. PopulationOK'
  BY <1>1, <1>2, <1>3, <1>4 DEF IInv, PopulationOK, Run
<1>11. LoadOK'
  BY <1>1, <1>2, <1>3, <1>4 DEF IInv, LoadOK, NoLoadLeftBehind
<1>12. TicketsOK'
  BY <1>1, <1>2, <1>3, <1>4 DEF IInv, TicketsOK, OnlyOwnTicketsServed, Run, ServiceOK, TicketsAre
<1>13. OneModePerLog'
  BY <1>1, <1>2, <1>3, <1>4 DEF IInv, OneModePerLog
<1> QED
  BY <1>5, <1>6, <1>7, <1>8, <1>9, <1>10, <1>11, <1>12, <1>13 DEF IInv

LEMMA JoinKeepsInv ==
    ASSUME Assumptions, IInv, NEW i \in Clients, Join(i)
    PROVE  IInv'
<1> USE DEF Join, stack, crowd, Outcomes
<1>1. driver \in DriverType /\ Run \in RunIds /\ Run.seed \in Seeds
  BY RunIsRun DEF IInv, DriverOK
<1>2. driver.pc = "load" /\ admission.run = Run /\ Run \in RunIds /\ Run # NoRun
      /\ Ticket(i) \in Tickets /\ Ticket(i)[1] = driver.launch
  BY RunsFacts
<1>3. admission' \in AdmissionType /\ admission'.run = admission.run /\ admission'.mode = admission.mode
  BY <1>2, LoggedFacts DEF IInv, ServiceOK, TicketEvents
<1>4. /\ tickets' \in TicketsType
      /\ \A q \in RunIds, u \in Tickets :
            tickets'[q][u] = tickets[q][u] \/ (q = Run /\ u = Ticket(i))
  BY <1>2, TicketFacts DEF IInv, ServiceOK, States, TicketsAre
<1>5. DriverOK'
  BY <1>1, <1>2, <1>3, <1>4 DEF IInv, DriverOK
<1>6. ServiceOK'
  BY <1>1, <1>2, <1>3, <1>4 DEF IInv, ServiceOK
<1>7. CrowdOK'
  BY <1>1, <1>2, <1>3, <1>4 DEF IInv, CrowdOK
<1>8. RecordsOK'
  BY <1>1, <1>2, <1>3, <1>4 DEF IInv, RecordsOK
<1>9. ModeOK'
  BY <1>1, <1>2, <1>3, <1>4 DEF IInv, ModeOK, Run
<1>10. PopulationOK'
  BY <1>1, <1>2, <1>3, <1>4 DEF IInv, PopulationOK, Run
<1>11. LoadOK'
  BY <1>1, <1>2, <1>3, <1>4 DEF IInv, LoadOK, NoLoadLeftBehind
<1>12. TicketsOK'
  BY <1>1, <1>2, <1>3, <1>4 DEF IInv, TicketsOK, OnlyOwnTicketsServed, Run, ServiceOK, TicketsAre
<1>13. OneModePerLog'
  BY <1>1, <1>2, <1>3, <1>4 DEF IInv, OneModePerLog
<1> QED
  BY <1>5, <1>6, <1>7, <1>8, <1>9, <1>10, <1>11, <1>12, <1>13 DEF IInv

LEMMA FetchKeepsInv ==
    ASSUME Assumptions, IInv, NEW i \in Clients, Fetch(i)
    PROVE  IInv'
<1> USE DEF Fetch, stack, crowd, Outcomes
<1>1. driver \in DriverType /\ Run \in RunIds /\ Run.seed \in Seeds
  BY RunIsRun DEF IInv, DriverOK
<1>2. DriverOK'
  BY DEF IInv, DriverOK
<1>3. ServiceOK'
  BY DEF IInv, ServiceOK
<1>4. CrowdOK'
  BY DEF IInv, CrowdOK
<1>5. RecordsOK'
  BY DEF IInv, RecordsOK
<1>6. ModeOK'
  BY DEF IInv, ModeOK, Run
<1>7. PopulationOK'
  BY DEF IInv, PopulationOK, Run
<1>8. LoadOK'
  BY DEF IInv, LoadOK, NoLoadLeftBehind
<1>9. TicketsOK'
  BY DEF IInv, TicketsOK, OnlyOwnTicketsServed, Run
<1>10. OneModePerLog'
  BY DEF IInv, OneModePerLog
<1> QED
  BY <1>2, <1>3, <1>4, <1>5, <1>6, <1>7, <1>8, <1>9, <1>10 DEF IInv

LEMMA UnreportedKeepsInv ==
    ASSUME Assumptions, IInv, NEW i \in Clients, Unreported(i)
    PROVE  IInv'
<1> USE DEF Unreported, stack, crowd, Outcomes
<1>1. driver \in DriverType /\ Run \in RunIds /\ Run.seed \in Seeds
  BY RunIsRun DEF IInv, DriverOK
<1>2. DriverOK'
  BY DEF IInv, DriverOK
<1>3. ServiceOK'
  BY DEF IInv, ServiceOK
<1>4. CrowdOK'
  BY DEF IInv, CrowdOK
<1>5. RecordsOK'
  BY DEF IInv, RecordsOK
<1>6. ModeOK'
  BY DEF IInv, ModeOK, Run
<1>7. PopulationOK'
  BY DEF IInv, PopulationOK, Run
<1>8. LoadOK'
  BY DEF IInv, LoadOK, NoLoadLeftBehind
<1>9. TicketsOK'
  BY DEF IInv, TicketsOK, OnlyOwnTicketsServed, Run
<1>10. OneModePerLog'
  BY DEF IInv, OneModePerLog
<1> QED
  BY <1>2, <1>3, <1>4, <1>5, <1>6, <1>7, <1>8, <1>9, <1>10 DEF IInv

LEMMA GiveUpKeepsInv ==
    ASSUME Assumptions, IInv, NEW i \in Clients, GiveUp(i)
    PROVE  IInv'
<1> USE DEF GiveUp, stack, crowd, Outcomes
<1>1. driver \in DriverType /\ Run \in RunIds /\ Run.seed \in Seeds
  BY RunIsRun DEF IInv, DriverOK
<1>2. DriverOK'
  BY DEF IInv, DriverOK
<1>3. ServiceOK'
  BY DEF IInv, ServiceOK
<1>4. CrowdOK'
  BY DEF IInv, CrowdOK
<1>5. RecordsOK'
  BY DEF IInv, RecordsOK
<1>6. ModeOK'
  BY DEF IInv, ModeOK, Run
<1>7. PopulationOK'
  BY DEF IInv, PopulationOK, Run
<1>8. LoadOK'
  BY DEF IInv, LoadOK, NoLoadLeftBehind
<1>9. TicketsOK'
  BY DEF IInv, TicketsOK, OnlyOwnTicketsServed, Run
<1>10. OneModePerLog'
  BY DEF IInv, OneModePerLog
<1> QED
  BY <1>2, <1>3, <1>4, <1>5, <1>6, <1>7, <1>8, <1>9, <1>10 DEF IInv

LEMMA FetchFailsKeepsInv ==
    ASSUME Assumptions, IInv, NEW i \in Clients, FetchFails(i)
    PROVE  IInv'
<1> USE DEF FetchFails, stack, crowd, TimedOut, Outcomes
<1>1. driver \in DriverType /\ Run \in RunIds /\ Run.seed \in Seeds
  BY RunIsRun DEF IInv, DriverOK
<1>2. driver.pc = "load" /\ admission.run = Run /\ Run \in RunIds /\ Run # NoRun
      /\ Ticket(i) \in Tickets /\ Ticket(i)[1] = driver.launch
  BY RunsFacts
<1>3. admission' \in AdmissionType /\ admission'.run = admission.run /\ admission'.mode = admission.mode
  BY <1>2, LoggedFacts DEF IInv, ServiceOK, TicketEvents
<1>4. DriverOK'
  BY <1>1, <1>2, <1>3 DEF IInv, DriverOK
<1>5. ServiceOK'
  BY <1>1, <1>2, <1>3 DEF IInv, ServiceOK, Assumptions, LoadAssumption
<1>6. CrowdOK'
  BY <1>1, <1>2, <1>3 DEF IInv, CrowdOK
<1>7. RecordsOK'
  BY <1>1, <1>2, <1>3 DEF IInv, RecordsOK
<1>8. ModeOK'
  BY <1>1, <1>2, <1>3 DEF IInv, ModeOK, Run
<1>9. PopulationOK'
  BY <1>1, <1>2, <1>3 DEF IInv, PopulationOK, Run
<1>10. LoadOK'
  BY <1>1, <1>2, <1>3 DEF IInv, LoadOK, NoLoadLeftBehind
<1>11. TicketsOK'
  BY <1>1, <1>2, <1>3 DEF IInv, TicketsOK, OnlyOwnTicketsServed, Run
<1>12. OneModePerLog'
  BY <1>1, <1>2, <1>3 DEF IInv, OneModePerLog
<1> QED
  BY <1>4, <1>5, <1>6, <1>7, <1>8, <1>9, <1>10, <1>11, <1>12 DEF IInv

LEMMA ServeKeepsInv ==
    ASSUME Assumptions, IInv, Serve
    PROVE  IInv'
<1> USE DEF Serve, stack, crowd
<1>1. driver \in DriverType /\ Run \in RunIds /\ Run.seed \in Seeds
  BY RunIsRun DEF IInv, DriverOK
<1>2. admission' \in AdmissionType /\ admission'.run = admission.run /\ admission'.mode = admission.mode
  BY DEF IInv, ServiceOK, AdmissionType
<1>3. DriverOK'
  BY <1>1, <1>2 DEF IInv, DriverOK
<1>4. ServiceOK'
  BY <1>1, <1>2 DEF IInv, ServiceOK
<1>5. CrowdOK'
  BY <1>1, <1>2 DEF IInv, CrowdOK
<1>6. RecordsOK'
  BY <1>1, <1>2 DEF IInv, RecordsOK
<1>7. ModeOK'
  BY <1>1, <1>2 DEF IInv, ModeOK, Run
<1>8. PopulationOK'
  BY <1>1, <1>2 DEF IInv, PopulationOK, Run
<1>9. LoadOK'
  BY <1>1, <1>2 DEF IInv, LoadOK, NoLoadLeftBehind
<1>10. TicketsOK'
  BY <1>1, <1>2 DEF IInv, TicketsOK, OnlyOwnTicketsServed, Run
<1>11. OneModePerLog'
  BY <1>1, <1>2 DEF IInv, OneModePerLog
<1> QED
  BY <1>3, <1>4, <1>5, <1>6, <1>7, <1>8, <1>9, <1>10, <1>11 DEF IInv

LEMMA AdmitKeepsInv ==
    ASSUME Assumptions, IInv, NEW t \in Tickets, Admit(t)
    PROVE  IInv'
<1> USE DEF Admit, stack, crowd
<1>1. driver \in DriverType /\ Run \in RunIds /\ Run.seed \in Seeds
  BY RunIsRun DEF IInv, DriverOK
<1>2. PICK r \in RunIds : r = admission.run
  BY DEF IInv, ServiceOK, AdmissionType
<1>3. admission' \in AdmissionType /\ admission'.run = admission.run /\ admission'.mode = admission.mode
  BY LoggedFacts DEF IInv, ServiceOK, TicketEvents
<1>4. tickets' = [tickets EXCEPT ![r][t] = "ADMITTED"]
  BY <1>2
<1>5. /\ tickets' \in TicketsType
      /\ TicketsAre(r, t, "ADMITTED")
  BY <1>2, <1>4, TicketFacts DEF IInv, ServiceOK, States
<1>6. DriverOK'
  BY <1>1, <1>2, <1>3, <1>5 DEF IInv, DriverOK
<1>7. ServiceOK'
  BY <1>1, <1>2, <1>3, <1>5 DEF IInv, ServiceOK
<1>8. CrowdOK'
  BY <1>1, <1>2, <1>3, <1>5 DEF IInv, CrowdOK
<1>9. RecordsOK'
  BY <1>1, <1>2, <1>3, <1>5 DEF IInv, RecordsOK
<1>10. ModeOK'
  BY <1>1, <1>2, <1>3, <1>5 DEF IInv, ModeOK, Run
<1>11. PopulationOK'
  BY <1>1, <1>2, <1>3, <1>5 DEF IInv, PopulationOK, Run
<1>12. LoadOK'
  BY <1>1, <1>2, <1>3, <1>5 DEF IInv, LoadOK, NoLoadLeftBehind
<1>13. TicketsOK'
  BY <1>1, <1>2, <1>3, <1>5 DEF IInv, TicketsOK, OnlyOwnTicketsServed, Run, ServiceOK, TicketsAre
<1>14. OneModePerLog'
  BY <1>1, <1>2, <1>3, <1>5 DEF IInv, OneModePerLog
<1> QED
  BY <1>6, <1>7, <1>8, <1>9, <1>10, <1>11, <1>12, <1>13, <1>14 DEF IInv

LEMMA ExpireKeepsInv ==
    ASSUME Assumptions, IInv, NEW t \in Tickets, Expire(t)
    PROVE  IInv'
<1> USE DEF Expire, stack, crowd, TimedOut
<1>1. driver \in DriverType /\ Run \in RunIds /\ Run.seed \in Seeds
  BY RunIsRun DEF IInv, DriverOK
<1>2. PICK r \in RunIds : r = admission.run
  BY DEF IInv, ServiceOK, AdmissionType
<1>3. admission' \in AdmissionType /\ admission'.run = admission.run /\ admission'.mode = admission.mode
  BY LoggedFacts DEF IInv, ServiceOK, TicketEvents
<1>4. DriverOK'
  BY <1>1, <1>2, <1>3 DEF IInv, DriverOK
<1>5. ServiceOK'
  BY <1>1, <1>2, <1>3 DEF IInv, ServiceOK, Assumptions, LoadAssumption
<1>6. CrowdOK'
  BY <1>1, <1>2, <1>3 DEF IInv, CrowdOK
<1>7. RecordsOK'
  BY <1>1, <1>2, <1>3 DEF IInv, RecordsOK
<1>8. ModeOK'
  BY <1>1, <1>2, <1>3 DEF IInv, ModeOK, Run
<1>9. PopulationOK'
  BY <1>1, <1>2, <1>3 DEF IInv, PopulationOK, Run
<1>10. LoadOK'
  BY <1>1, <1>2, <1>3 DEF IInv, LoadOK, NoLoadLeftBehind
<1>11. TicketsOK'
  BY <1>1, <1>2, <1>3 DEF IInv, TicketsOK, OnlyOwnTicketsServed, Run
<1>12. OneModePerLog'
  BY <1>1, <1>2, <1>3 DEF IInv, OneModePerLog
<1> QED
  BY <1>4, <1>5, <1>6, <1>7, <1>8, <1>9, <1>10, <1>11, <1>12 DEF IInv

LEMMA RequeueKeepsInv ==
    ASSUME Assumptions, IInv, NEW t \in Tickets, Requeue(t)
    PROVE  IInv'
<1> USE DEF Requeue, stack, crowd
<1>1. driver \in DriverType /\ Run \in RunIds /\ Run.seed \in Seeds
  BY RunIsRun DEF IInv, DriverOK
<1>2. PICK r \in RunIds : r = admission.run
  BY DEF IInv, ServiceOK, AdmissionType, ModeOK
<1>3. admission' \in AdmissionType /\ admission'.run = admission.run /\ admission'.mode = admission.mode
  BY LoggedFacts DEF IInv, ServiceOK, TicketEvents
<1>4. PICK s \in States : /\ tickets' = [tickets EXCEPT ![r][t] = s]
                          /\ tickets[r][t] \in {"NONE", "GHOST"} => s = "GHOST"
  BY <1>2 DEF IInv, ServiceOK, TicketsType, States
<1>5. tickets \in TicketsType /\ tickets' = [tickets EXCEPT ![r][t] = s]
  BY <1>4 DEF IInv, ServiceOK
<1>6. /\ tickets' \in TicketsType /\ TicketsAre(r, t, s)
  BY <1>5, TicketFacts
<1>7. DriverOK'
  BY <1>1, <1>2, <1>3, <1>4, <1>6 DEF IInv, DriverOK
<1>8. ServiceOK'
  BY <1>1, <1>2, <1>3, <1>4, <1>6 DEF IInv, ServiceOK
<1>9. CrowdOK'
  BY <1>1, <1>2, <1>3, <1>4, <1>6 DEF IInv, CrowdOK
<1>10. RecordsOK'
  BY <1>1, <1>2, <1>3, <1>4, <1>6 DEF IInv, RecordsOK
<1>11. ModeOK'
  BY <1>1, <1>2, <1>3, <1>4, <1>6 DEF IInv, ModeOK, Run
<1>12. PopulationOK'
  BY <1>1, <1>2, <1>3, <1>4, <1>6 DEF IInv, PopulationOK, Run
<1>13. LoadOK'
  BY <1>1, <1>2, <1>3, <1>4, <1>6 DEF IInv, LoadOK, NoLoadLeftBehind
<1>14. TicketsOK'
  BY <1>1, <1>2, <1>3, <1>4, <1>6 DEF IInv, TicketsOK, OnlyOwnTicketsServed, Run, ServiceOK, TicketsAre
<1>15. OneModePerLog'
  BY <1>1, <1>2, <1>3, <1>4, <1>6 DEF IInv, OneModePerLog
<1> QED
  BY <1>7, <1>8, <1>9, <1>10, <1>11, <1>12, <1>13, <1>14, <1>15 DEF IInv

LEMMA StoreControlKeepsInv ==
    ASSUME Assumptions, IInv, StoreControl
    PROVE  IInv'
<1> USE DEF StoreControl, stack, crowd
<1>1. driver \in DriverType /\ Run \in RunIds /\ Run.seed \in Seeds
  BY RunIsRun DEF IInv, DriverOK
<1>2. PICK r \in RunIds : r = admission.run /\ admission.mode = r.mode
  BY DEF IInv, ServiceOK, AdmissionType, ModeOK
<1>3. PICK m : m = files[r].modes \cup {r.mode}
  OBVIOUS
<1>4. files[r] \in Log /\ files \in [RunIds -> Log]
  BY DEF IInv, ServiceOK
<1>5. m \in SUBSET {"none", "baseline", "aaac"}
  BY <1>3, <1>4, RunTypes DEF Log, Assumptions
<1>6. PICK named : named = [files EXCEPT ![r].modes = m]
  OBVIOUS
<1>7. named \in [RunIds -> Log] /\ ModesAre(named, files, r, m)
  BY <1>4, <1>5, <1>6, FileNamesMode
<1>8. files' = named
  BY <1>2, <1>3, <1>6
<1>9. DriverOK'
  BY <1>1, <1>2, <1>3, <1>7, <1>8 DEF IInv, DriverOK
<1>10. ServiceOK'
  BY <1>1, <1>2, <1>3, <1>7, <1>8 DEF IInv, ServiceOK
<1>11. CrowdOK'
  BY <1>1, <1>2, <1>3, <1>7, <1>8 DEF IInv, CrowdOK
<1>12. RecordsOK'
  BY <1>1, <1>2, <1>3, <1>7, <1>8 DEF IInv, RecordsOK
<1>13. ModeOK'
  BY <1>1, <1>2, <1>3, <1>7, <1>8 DEF IInv, ModeOK, Run
<1>14. PopulationOK'
  BY <1>1, <1>2, <1>3, <1>7, <1>8 DEF IInv, PopulationOK, Run
<1>15. LoadOK'
  BY <1>1, <1>2, <1>3, <1>7, <1>8 DEF IInv, LoadOK, NoLoadLeftBehind
<1>16. TicketsOK'
  BY <1>1, <1>2, <1>3, <1>7, <1>8 DEF IInv, TicketsOK, OnlyOwnTicketsServed, Run
<1>17. OneModePerLog'
  BY <1>1, <1>2, <1>3, <1>7, <1>8 DEF IInv, OneModePerLog, ModesAre
<1> QED
  BY <1>9, <1>10, <1>11, <1>12, <1>13, <1>14, <1>15, <1>16, <1>17 DEF IInv

LEMMA StoreLineKeepsInv ==
    ASSUME Assumptions, IInv, NEW t \in Tickets, StoreLine(t)
    PROVE  IInv'
<1> USE DEF StoreLine, stack, crowd
<1>1. driver \in DriverType /\ Run \in RunIds /\ Run.seed \in Seeds
  BY RunIsRun DEF IInv, DriverOK
<1>2. PICK r \in RunIds : r = admission.run /\ admission.mode = r.mode
  BY DEF IInv, ServiceOK, AdmissionType, ModeOK
<1>3. PICK line, rest, m : /\ line = Append(files[r].tickets[t], Head(admission.buffer[t]))
                           /\ rest = Tail(admission.buffer[t])
                           /\ m = files[r].modes \cup {r.mode}
  OBVIOUS
<1>4. /\ admission.buffer[t] \in Seq(TicketEvents) /\ admission \in AdmissionType
      /\ files[r] \in Log /\ files \in [RunIds -> Log]
  BY <1>2 DEF IInv, ServiceOK, AdmissionType
<1>5. m \in SUBSET {"none", "baseline", "aaac"}
  BY <1>3, <1>4, RunTypes DEF Log, Assumptions
<1>6. rest \in Seq(TicketEvents)
  BY <1>3, <1>4
<1>7. line \in Seq(TicketEvents)
  BY <1>3, <1>4 DEF Log
<1>8. files' = [files EXCEPT ![r].modes = m, ![r].tickets[t] = line]
  BY <1>2, <1>3, <1>4
<1>9. PICK named : named = [files EXCEPT ![r].modes = m]
  OBVIOUS
<1>10. /\ named \in [RunIds -> Log] /\ named[r].tickets = files[r].tickets /\ ModesAre(named, files, r, m)
  BY <1>4, <1>5, <1>9, FileNamesMode
<1>11. PICK both : both = [named EXCEPT ![r].tickets[t] = line]
  OBVIOUS
<1>12. both \in [RunIds -> Log] /\ ModesAre(both, named, r, named[r].modes)
  BY <1>7, <1>10, <1>11, FileGetsLine
<1>13. files' = both
  BY <1>8, <1>9, <1>11
<1>14. admission' \in AdmissionType /\ admission'.run = admission.run /\ admission'.mode = admission.mode
  BY <1>3, <1>4, <1>6, BufferFacts
<1>15. DriverOK'
  BY <1>1, <1>2, <1>3, <1>10, <1>12, <1>13, <1>14 DEF IInv, DriverOK
<1>16. ServiceOK'
  BY <1>1, <1>2, <1>3, <1>10, <1>12, <1>13, <1>14 DEF IInv, ServiceOK
<1>17. CrowdOK'
  BY <1>1, <1>2, <1>3, <1>10, <1>12, <1>13, <1>14 DEF IInv, CrowdOK
<1>18. RecordsOK'
  BY <1>1, <1>2, <1>3, <1>10, <1>12, <1>13, <1>14 DEF IInv, RecordsOK
<1>19. ModeOK'
  BY <1>1, <1>2, <1>3, <1>10, <1>12, <1>13, <1>14 DEF IInv, ModeOK, Run
<1>20. PopulationOK'
  BY <1>1, <1>2, <1>3, <1>10, <1>12, <1>13, <1>14 DEF IInv, PopulationOK, Run
<1>21. LoadOK'
  BY <1>1, <1>2, <1>3, <1>10, <1>12, <1>13, <1>14 DEF IInv, LoadOK, NoLoadLeftBehind
<1>22. TicketsOK'
  BY <1>1, <1>2, <1>3, <1>10, <1>12, <1>13, <1>14 DEF IInv, TicketsOK, OnlyOwnTicketsServed, Run
<1>23. OneModePerLog'
  BY <1>1, <1>2, <1>3, <1>10, <1>12, <1>13, <1>14 DEF IInv, OneModePerLog, ModesAre
<1> QED
  BY <1>15, <1>16, <1>17, <1>18, <1>19, <1>20, <1>21, <1>22, <1>23 DEF IInv

-----------------------------------------------------------------------------
(* What is read of a log *)

LEMMA TimesInNat ==
    ASSUME NEW s \in Seq(TicketEvents), NEW e PROVE Times(s, e) \in Nat
<1>1. IsFiniteSet(DOMAIN s)
  BY FS_Interval, LenProperties
<1>2. IsFiniteSet({i \in DOMAIN s : s[i] = e})
  BY <1>1, FS_Subset
<1> QED BY <1>2, FS_CardinalityType DEF Times

LEMMA RecordType ==
    ASSUME NEW r \in RunIds, NEW log \in Log, populations[r.seed] \in LoadSizes
    PROVE  RecordOf(r, log) \in RunRecord
<1> DEFINE n == populations[r.seed]
           class == [t \in Tickets |-> label(n, t[2])]
           traces == build_traces(log)
           usable == {t \in DOMAIN traces : traces[t].joined}
           completed == {t \in usable : traces[t].completed_ok}
           attempts == [t \in Tickets |-> IF t \in completed THEN traces[t].admits ELSE 0]
<1>1. DOMAIN traces \subseteq Tickets /\ \A t \in DOMAIN traces : traces[t].admits \in Nat
  BY TimesInNat DEF build_traces, trace_of, Log
<1>2. usable \subseteq Tickets /\ completed \subseteq Tickets /\ attempts \in [Tickets -> Nat]
  BY <1>1
<1>3. \A t \in completed : t \in usable
  OBVIOUS
<1>4. PICK delta, upper :
         /\ delta = compute(log, class).delta_defined /\ delta \in BOOLEAN
         /\ upper = compute(log, class).upper_bound /\ upper \in BOOLEAN
  BY Zenon DEF compute
<1>5. compute(log, class).overall.joined = usable /\ compute(log, class).overall.completed = completed
  BY DEF compute, class_metrics
<1>6. \A t \in completed : compute(log, class).attempts[t] = traces[t].admits
  BY <1>5 DEF compute, class_metrics
<1>7. RecordOf(r, log) = [run |-> r, n |-> n, joined |-> usable, completed |-> completed,
                          attempts |-> attempts, delta_defined |-> delta, upper_bound |-> upper]
  BY <1>4, <1>5, <1>6 DEF RecordOf
<1> HIDE DEF n, class, traces, usable, completed, attempts
<1>8. n \in LoadSizes
  BY DEF n
<1> QED BY <1>2, <1>4, <1>7, <1>8 DEF RunRecord

LEMMA NextRun ==
    ASSUME MatrixAssumption, driver \in DriverType, driver.run # Len(Matrix), NEW p \in PCs,
           driver' = [driver EXCEPT !.run = @ + 1, !.pc = p]
    PROVE  driver' \in DriverType /\ driver'.pc = p /\ driver'.run = driver.run + 1 /\ driver'.n = driver.n
<1>1. driver.run \in 1 .. Len(Matrix) /\ Len(Matrix) \in Nat /\ DOMAIN Matrix = 1 .. Len(Matrix)
  BY LenProperties DEF MatrixAssumption, DriverType
<1>2. driver.run + 1 \in DOMAIN Matrix
  BY <1>1
<1> QED BY <1>2 DEF DriverType

LEMMA ReadKeepsInv ==
    ASSUME Assumptions, IInv, Read
    PROVE  IInv'
<1> USE DEF stack
<1>1. driver \in DriverType /\ Run \in RunIds /\ Run.seed \in Seeds
  BY RunIsRun DEF IInv, DriverOK
<1>2. UNCHANGED <<populations, config, drove, admission, tickets, handling, timeouts, files>>
  BY DEF Read
<1>3. load' = [c \in AccessClass |-> "none"] /\ session' = [i \in Clients |-> "scheduled"]
  BY DEF Read
<1>4. driver.n \in LoadSizes /\ populations[Run.seed] = driver.n /\ files[Run] \in Log
  BY <1>1 DEF Read, IInv, PopulationOK, DriverType, ServiceOK
<1>5. records' \in Seq(RunRecord)
  <2>1. RecordOf(Run, files[Run]) \in RunRecord
    BY <1>1, <1>4, RecordType
  <2>2. records \in Seq(RunRecord)
    BY DEF IInv, RecordsOK
  <2>3. records' = Append(records, RecordOf(Run, files[Run])) \/ records' = << >>
    BY DEF Read, Fail
  <2>4. \A x \in RunRecord : Append(records, x) \in Seq(RunRecord)
    BY <2>2, AppendProperties
  <2> QED BY <2>1, <2>3, <2>4, EmptySeq
<1>6. driver' \in DriverType /\ driver'.pc \in {"idle", "configure", "population"}
      /\ (driver'.pc = "configure" => Run'.seed = Run.seed /\ driver'.n = driver.n)
  <2>1. CASE driver' = [driver EXCEPT !.pc = "idle"]
    BY <1>1, <2>1, GotoFacts DEF PCs
  <2>2. CASE driver.run # Len(Matrix) /\ driver' = [driver EXCEPT !.run = @ + 1,
               !.pc = IF Matrix[driver.run + 1].seed = Run.seed THEN "configure" ELSE "population"]
    <3>1. PICK p \in PCs : p = IF Matrix[driver.run + 1].seed = Run.seed THEN "configure" ELSE "population"
      BY DEF PCs
    <3>2. driver' = [driver EXCEPT !.run = @ + 1, !.pc = p]
      BY <2>2, <3>1
    <3>3. driver' \in DriverType /\ driver'.pc = p /\ driver'.run = driver.run + 1 /\ driver'.n = driver.n
      BY <1>1, <2>2, <3>2, NextRun DEF Assumptions
    <3> QED BY <3>1, <3>3 DEF Run
  <2>3. \/ driver' = [driver EXCEPT !.pc = "idle"]
        \/ driver.run # Len(Matrix) /\ driver' = [driver EXCEPT !.run = @ + 1,
               !.pc = IF Matrix[driver.run + 1].seed = Run.seed THEN "configure" ELSE "population"]
    BY DEF Read, Fail
  <2> QED BY <2>1, <2>2, <2>3
<1>7. DriverOK'
  BY <1>2, <1>6 DEF IInv, DriverOK
<1>8. ServiceOK'
  BY <1>2 DEF IInv, ServiceOK
<1>9. CrowdOK'
  BY <1>3 DEF CrowdOK
<1>10. ModeOK'
  BY <1>2, <1>6 DEF IInv, ModeOK
<1>11. PopulationOK'
  BY <1>2, <1>4, <1>6 DEF PopulationOK
<1>12. LoadOK'
  BY <1>3, <1>6 DEF LoadOK, NoLoadLeftBehind
<1>13. TicketsOK'
  BY <1>6 DEF TicketsOK, OnlyOwnTicketsServed
<1>14. OneModePerLog'
  BY <1>2 DEF IInv, OneModePerLog
<1> QED
  BY <1>5, <1>7, <1>8, <1>9, <1>10, <1>11, <1>12, <1>13, <1>14 DEF IInv, RecordsOK
-----------------------------------------------------------------------------
(* The theorems *)

LEMMA InitInv == ASSUME Assumptions, Init PROVE IInv
<1> USE DEF Init
<1>1. DriverOK
  <2>1. (CHOOSE n \in LoadSizes : TRUE) \in LoadSizes /\ HIGH \in AccessClass
    BY DEF Assumptions, LoadAssumption, AccessClass
  <2>2. 0 \in 0 .. LaunchBound /\ "idle" \in PCs
    BY DEF Assumptions, LoadAssumption, PCs
  <2>3. driver \in DriverType
    BY <2>1, <2>2, FirstRun DEF DriverType, Assumptions
  <2> QED BY <2>3 DEF DriverOK
<1>2. ServiceOK
  <2>1. NoLines \in [Tickets -> Seq(TicketEvents)]
    BY EmptySeq DEF NoLines
  <2>2. admission \in AdmissionType
    BY <2>1 DEF AdmissionType
  <2>3. tickets \in TicketsType
    BY DEF TicketsType, States
  <2>4. files \in [RunIds -> Log]
    BY <2>1 DEF Log
  <2>5. handling \subseteq Tickets /\ timeouts \in 0 .. TimeoutBound
    BY DEF Assumptions, LoadAssumption
  <2> QED BY <2>2, <2>3, <2>4, <2>5 DEF ServiceOK
<1>3. CrowdOK /\ RecordsOK
  BY EmptySeq DEF CrowdOK, RecordsOK
<1>4. driver.pc = "idle" /\ admission.run = NoRun /\ handling = {}
  OBVIOUS
<1>5. ModeOK /\ PopulationOK
  BY <1>4 DEF ModeOK, PopulationOK
<1>6. LoadOK /\ TicketsOK
  BY <1>4 DEF LoadOK, TicketsOK, NoLoadLeftBehind, OnlyOwnTicketsServed
<1>7. OneModePerLog
  BY DEF OneModePerLog
<1> QED BY <1>1, <1>2, <1>3, <1>5, <1>6, <1>7 DEF IInv

LEMMA StutterKeepsInv == ASSUME IInv, UNCHANGED vars PROVE IInv'
<1> USE DEF vars, stack, crowd
<1>1. DriverOK' /\ ServiceOK' /\ CrowdOK' /\ RecordsOK'
  BY DEF IInv, DriverOK, ServiceOK, CrowdOK, RecordsOK
<1>2. ModeOK' /\ PopulationOK'
  BY DEF IInv, ModeOK, PopulationOK, Run
<1>3. LoadOK' /\ TicketsOK' /\ OneModePerLog'
  BY DEF IInv, LoadOK, NoLoadLeftBehind, TicketsOK, OnlyOwnTicketsServed, OneModePerLog, Run
<1> QED BY <1>1, <1>2, <1>3 DEF IInv

LEMMA NextKeepsInv == ASSUME Assumptions, IInv, [Next]_vars PROVE IInv'
<1>1. CASE Start \/ Drive
  BY <1>1, StartKeepsInv, ensure_populationKeepsInv, WriteConfigKeepsInv,
     RecreateServicesKeepsInv, UpFailsKeepsInv, wait_for_admissionKeepsInv, FlushAllKeepsInv,
     LaunchKeepsInv, AwaitGeneratorKeepsInv, LoadFailsKeepsInv, ReadKeepsInv DEF Drive, Prepare
<1>2. CASE \E c \in AccessClass : Generator(c)
  BY <1>2, GeneratorEndsKeepsInv, GeneratorFailsKeepsInv DEF Generator
<1>3. CASE \E i \in Clients : Client(i)
  BY <1>3, JoinKeepsInv, FetchKeepsInv, CompleteKeepsInv, UnreportedKeepsInv,
     FetchFailsKeepsInv, GiveUpKeepsInv DEF Client
<1>4. CASE Service
  BY <1>4, ServeKeepsInv, StoreControlKeepsInv, AdmitKeepsInv, ExpireKeepsInv,
     RequeueKeepsInv, StoreLineKeepsInv DEF Service
<1>5. CASE UNCHANGED vars
  BY <1>5, StutterKeepsInv
<1> QED BY <1>1, <1>2, <1>3, <1>4, <1>5 DEF Next

LEMMA Assumed == Assumptions
  BY MatrixAssumption, LoadAssumption DEF Assumptions

LEMMA InvHolds == Spec => []IInv
<1>1. Init => IInv
  BY Assumed, InitInv
<1>2. IInv /\ [Next]_vars => IInv'
  BY Assumed, NextKeepsInv
<1> QED BY <1>1, <1>2, PTL DEF Spec

\* Whatever fails and is started again, the driver, the services, the logs and what
\* is computed from them keep their types: a record has the size of a population.
THEOREM ExperimentTypeCorrect == Spec => []TypeOK
<1>1. IInv => TypeOK
  BY DEF IInv, TypeOK, DriverOK, ServiceOK, CrowdOK, RecordsOK, DriverType, PCs,
     AdmissionType, TicketsType, States
<1> QED BY <1>1, InvHolds, PTL

\* No log of a run has a line of another mode.
THEOREM LogsHaveOneMode == Spec => []OneModePerLog
<1>1. IInv => OneModePerLog
  BY DEF IInv
<1> QED BY <1>1, InvHolds, PTL

\* A load generator runs only while its run is waited for.
THEOREM NoGeneratorIsLeft == Spec => []NoLoadLeftBehind
<1>1. IInv => NoLoadLeftBehind
  BY DEF IInv, LoadOK
<1> QED BY <1>1, InvHolds, PTL

\* While a run's load is driven and read, no ticket of an earlier attempt is in
\* its Redis.
THEOREM StaleTicketsAreGone == Spec => []OnlyOwnTicketsServed
<1>1. IInv => OnlyOwnTicketsServed
  BY DEF IInv, TicketsOK
<1> QED BY <1>1, InvHolds, PTL
-----------------------------------------------------------------------------
(* What the logs can hold: the second inductive invariant *)

\* What the admission service has logged of ticket t in run r: what is in the file,
\* and then what its container still has in the buffer.
Trace(r, t) ==
    IF admission.run = r THEN files[r].tickets[t] \o admission.buffer[t] ELSE files[r].tickets[t]

Has(s, e) == \E i \in DOMAIN s : s[i] = e
AdmittedFirst(s) ==
    \A j \in DOMAIN s : s[j] = "COMPLETE" => \E i \in DOMAIN s : i < j /\ s[i] = "ADMIT"

\* The load that t is of replayed the population that r has.
DrivenBy(r, t) == populations[r.seed] # 0 /\ drove[t[1]] = populations[r.seed]

\* Nothing is known of the tickets of a load that is yet to be launched.
NotYet ==
    \A t \in Tickets : t[1] > driver.launch =>
        t \notin handling /\ \A r \in RunIds : Trace(r, t) = << >> /\ tickets[r][t] = "NONE"

\* Whatever there is of a ticket, in a log, in Redis or in the middle of
\* handle_timeout, its load replayed the population of the run it is in.
OwnLoad ==
    /\ \A r \in RunIds, t \in Tickets :
          Trace(r, t) # << >> \/ tickets[r][t] # "NONE" => DrivenBy(r, t)
    /\ \A t \in handling : DrivenBy(admission.run, t)
    /\ driver.pc \in {"load", "read"} => drove[driver.launch] = populations[Run.seed]

\* A completion is logged after an admission.
InOrder == \A r \in RunIds, t \in Tickets : AdmittedFirst(Trace(r, t))

\* A completion is logged of a client that saw it accepted, and who fetches, or
\* may, has been admitted.
SessionsOK ==
    /\ driver.pc \in {"load", "read"} =>
          \A i \in Clients : Has(Trace(Run, Ticket(i)), "COMPLETE") => session[i] = "COMPLETED"
    /\ driver.pc = "load" =>
          \A i \in Clients : session[i] = "fetching" \/ tickets[Run][Ticket(i)] = "ADMITTED" =>
                                Has(Trace(Run, Ticket(i)), "ADMIT")

\* What a record counts is still in the file it was read from, and its size still
\* that of the population.
Upheld(record) ==
    /\ record.n = populations[record.run.seed] /\ record.n # 0
    /\ files[record.run].modes # {}
    /\ \A t \in record.joined : Has(files[record.run].tickets[t], "JOIN")
    /\ \A t \in record.completed :
          /\ Has(files[record.run].tickets[t], "JOIN")
          /\ Has(files[record.run].tickets[t], "COMPLETE")

RecordsUpheld == \A k \in DOMAIN records : Upheld(records[k])

LogInv == NotYet /\ OwnLoad /\ InOrder /\ SessionsOK /\ RecordsUpheld

LEMMA LogTypes ==
    ASSUME IInv, NEW r \in RunIds, NEW t \in Tickets
    PROVE  /\ files[r].tickets[t] \in Seq(TicketEvents)
           /\ admission.buffer[t] \in Seq(TicketEvents)
           /\ Trace(r, t) \in Seq(TicketEvents)
<1>1. files[r].tickets[t] \in Seq(TicketEvents) /\ admission.buffer[t] \in Seq(TicketEvents)
  BY DEF IInv, ServiceOK, Log, AdmissionType
<1> QED BY <1>1 DEF Trace

LEMMA TicketParts ==
    ASSUME Assumptions, NEW t \in Tickets
    PROVE  t[1] \in Nat /\ t[2] \in Clients /\ t = <<t[1], t[2]>>
  BY DEF Tickets, Assumptions, LoadAssumption

LEMMA TicketOfLoad ==
    ASSUME Assumptions, IInv, driver.pc \in {"load", "read"}, NEW i \in Clients
    PROVE  Ticket(i) \in Tickets
<1>1. driver.launch \in 1 .. LaunchBound
  BY DEF IInv, LoadOK, DriverOK, DriverType, Assumptions, LoadAssumption
<1> QED BY <1>1 DEF Ticket, Tickets

LEMMA EmptyTrace == AdmittedFirst(<< >>) /\ \A e : ~Has(<< >>, e)
  BY DEF AdmittedFirst, Has

\* A record is added at the end of a trace, whose admissions and completions stay.
LEMMA TraceGrows ==
    ASSUME NEW s \in Seq(TicketEvents), NEW e \in TicketEvents
    PROVE  /\ Append(s, e) # << >>
           /\ \A x : Has(Append(s, e), x) <=> Has(s, x) \/ x = e
           /\ AdmittedFirst(s) /\ (e = "COMPLETE" => Has(s, "ADMIT")) => AdmittedFirst(Append(s, e))
<1>1. /\ Append(s, e) \in Seq(TicketEvents) /\ Len(Append(s, e)) = Len(s) + 1 /\ Len(s) \in Nat
      /\ DOMAIN s = 1 .. Len(s) /\ DOMAIN Append(s, e) = 1 .. Len(s) + 1
      /\ Append(s, e)[Len(s) + 1] = e
      /\ \A i \in 1 .. Len(s) : Append(s, e)[i] = s[i]
  BY AppendProperties, LenProperties
<1>2. Append(s, e) # << >>
  BY <1>1, EmptySeq
<1>3. \A x : Has(Append(s, e), x) <=> Has(s, x) \/ x = e
  BY <1>1 DEF Has
<1>4. ASSUME AdmittedFirst(s), e = "COMPLETE" => Has(s, "ADMIT")
      PROVE  AdmittedFirst(Append(s, e))
  BY <1>1, <1>4 DEF AdmittedFirst, Has
<1> QED BY <1>2, <1>3, <1>4

\* What is in the file is the first part of the trace.
LEMMA FileIsPrefix ==
    ASSUME NEW f \in Seq(TicketEvents), NEW b \in Seq(TicketEvents)
    PROVE  /\ \A x : Has(f, x) => Has(f \o b, x)
           /\ AdmittedFirst(f \o b) => AdmittedFirst(f)
           /\ f # << >> => f \o b # << >>
           /\ f \o << >> = f
<1>1. /\ f \o b \in Seq(TicketEvents) /\ Len(f \o b) = Len(f) + Len(b)
      /\ Len(f) \in Nat /\ Len(b) \in Nat
      /\ DOMAIN f = 1 .. Len(f) /\ DOMAIN (f \o b) = 1 .. Len(f) + Len(b)
      /\ \A i \in 1 .. Len(f) : (f \o b)[i] = f[i]
  BY ConcatProperties, LenProperties
<1>2. \A x : Has(f, x) => Has(f \o b, x)
  BY <1>1 DEF Has
<1>3. AdmittedFirst(f \o b) => AdmittedFirst(f)
  BY <1>1 DEF AdmittedFirst
<1>4. f # << >> => f \o b # << >>
  BY <1>1, EmptySeq
<1>5. f \o << >> = f
  BY ConcatEmptySeq
<1> QED BY <1>2, <1>3, <1>4, <1>5

LEMMA AppendToBuffer ==
    ASSUME NEW f \in Seq(TicketEvents), NEW b \in Seq(TicketEvents), NEW e \in TicketEvents
    PROVE  f \o Append(b, e) = Append(f \o b, e)
<1>1. <<e>> \in Seq(TicketEvents) /\ f \o b \in Seq(TicketEvents)
  OBVIOUS
<1>2. Append(b, e) = b \o <<e>> /\ Append(f \o b, e) = (f \o b) \o <<e>>
  BY <1>1, AppendIsConcat
<1> QED BY <1>1, <1>2, ConcatAssociative

\* Storing a line moves it from the buffer to the file.
LEMMA StoredLine ==
    ASSUME NEW f \in Seq(TicketEvents), NEW b \in Seq(TicketEvents), b # << >>
    PROVE  Append(f, Head(b)) \o Tail(b) = f \o b
<1> DEFINE g == Append(f, Head(b))
           u == g \o Tail(b)
           v == f \o b
<1>1. Head(b) \in TicketEvents /\ Tail(b) \in Seq(TicketEvents) /\ Len(b) \in Nat /\ Len(b) >= 1
      /\ Len(Tail(b)) = Len(b) - 1 /\ b[1] = Head(b)
      /\ \A i \in 1 .. Len(b) - 1 : Tail(b)[i] = b[i + 1]
  BY HeadTailProperties, LenProperties, EmptySeq
<1>2. g \in Seq(TicketEvents) /\ Len(g) = Len(f) + 1 /\ Len(f) \in Nat
      /\ g[Len(f) + 1] = Head(b) /\ \A i \in 1 .. Len(f) : g[i] = f[i]
  BY <1>1, AppendProperties, LenProperties
<1> HIDE DEF g
<1>3. /\ u \in Seq(TicketEvents) /\ Len(u) = Len(f) + Len(b)
      /\ v \in Seq(TicketEvents) /\ Len(v) = Len(f) + Len(b)
  <2>1. u \in Seq(TicketEvents) /\ Len(u) = Len(g) + Len(Tail(b))
    BY <1>1, <1>2, ConcatProperties
  <2>2. v \in Seq(TicketEvents) /\ Len(v) = Len(f) + Len(b)
    BY <1>1, <1>2, ConcatProperties
  <2> HIDE DEF u, v
  <2> QED BY <1>1, <1>2, <2>1, <2>2
<1>4. ASSUME NEW i \in 1 .. Len(f) + Len(b)
      PROVE  u[i] = v[i]
  <2>1. u[i] = IF i <= Len(g) THEN g[i] ELSE Tail(b)[i - Len(g)]
    <3>1. i \in 1 .. Len(g) + Len(Tail(b))
      BY <1>1, <1>2
    <3> QED BY <1>1, <1>2, <3>1, ConcatProperties
  <2>2. v[i] = IF i <= Len(f) THEN f[i] ELSE b[i - Len(f)]
    BY <1>1, <1>2, ConcatProperties
  <2>3. CASE i <= Len(f)
    BY <1>1, <1>2, <2>1, <2>2, <2>3
  <2>4. CASE i = Len(f) + 1
    BY <1>1, <1>2, <2>1, <2>2, <2>4
  <2>5. CASE i > Len(f) + 1
    <3>1. u[i] = Tail(b)[i - (Len(f) + 1)] /\ v[i] = b[i - Len(f)]
      BY <1>1, <1>2, <2>1, <2>2, <2>5
    <3>2. i - (Len(f) + 1) \in 1 .. Len(b) - 1 /\ (i - (Len(f) + 1)) + 1 = i - Len(f)
      BY <1>1, <1>2, <2>5
    <3> QED BY <1>1, <3>1, <3>2
  <2> QED BY <1>1, <1>2, <2>3, <2>4, <2>5
<1>5. u = v
  <2> HIDE DEF u, v
  <2> QED BY <1>3, <1>4, SeqEqual
<1> QED BY <1>5 DEF g
-----------------------------------------------------------------------------
(* The kinds of steps, as far as LogInv can tell them apart *)

\* Nothing is logged, stored or taken from Redis, no run gets to its load, and no
\* client's completion is forgotten.
Quiet ==
    /\ UNCHANGED <<populations, tickets, handling, files, drove>>
    /\ admission'.run = admission.run /\ admission'.buffer = admission.buffer
    /\ driver'.launch = driver.launch
    /\ records' = records \/ records' = << >>
    /\ driver'.pc \in {"load", "read"} =>
          /\ driver.pc \in {"load", "read"} /\ Run' = Run
          /\ \A i \in Clients : session[i] = "COMPLETED" => session'[i] = "COMPLETED"
    /\ driver'.pc = "load" =>
          /\ driver.pc = "load"
          /\ \A i \in Clients : session'[i] = "fetching" =>
                session[i] = "fetching" \/ tickets[Run][Ticket(i)] = "ADMITTED"

LEMMA RecordsStay ==
    ASSUME RecordsUpheld, UNCHANGED <<populations, files>>, records' = records \/ records' = << >>
    PROVE  RecordsUpheld'
<1>1. CASE records' = records
  BY <1>1 DEF RecordsUpheld, Upheld, Has
<1>2. CASE records' = << >>
  BY <1>2 DEF RecordsUpheld
<1> QED BY <1>1, <1>2

LEMMA QuietKeepsLogInv == ASSUME LogInv, Quiet PROVE LogInv'
<1>1. /\ \A r, t : Trace(r, t)' = Trace(r, t)
      /\ \A i : Ticket(i)' = Ticket(i)
      /\ \A r, t : DrivenBy(r, t)' = DrivenBy(r, t)
  BY DEF Quiet, Trace, Ticket, DrivenBy
<1>2. NotYet'
  BY <1>1 DEF LogInv, Quiet, NotYet
<1>3. OwnLoad'
  BY <1>1 DEF LogInv, Quiet, OwnLoad
<1>4. InOrder'
  BY <1>1 DEF LogInv, InOrder
<1>5. SessionsOK'
  <2>1. ASSUME driver'.pc \in {"load", "read"}, NEW i \in Clients,
               Has(Trace(Run, Ticket(i)), "COMPLETE")'
        PROVE  session'[i] = "COMPLETED"
    BY <1>1, <2>1 DEF LogInv, Quiet, SessionsOK, Has
  <2>2. ASSUME driver'.pc = "load", NEW i \in Clients,
               session'[i] = "fetching" \/ tickets'[Run'][Ticket(i)'] = "ADMITTED"
        PROVE  Has(Trace(Run, Ticket(i)), "ADMIT")'
    BY <1>1, <2>2 DEF LogInv, Quiet, SessionsOK, Has
  <2> QED BY <2>1, <2>2 DEF SessionsOK
<1>6. RecordsUpheld'
  BY RecordsStay DEF LogInv, Quiet
<1> QED BY <1>2, <1>3, <1>4, <1>5, <1>6 DEF LogInv

\* The service logs e of t, which it knows: a completion only after an admission
\* and of a client that ends with it, and an admission with what it admits.
Logging(t, e) ==
    /\ UNCHANGED <<populations, files, drove, driver, records>>
    /\ t \in Tickets /\ e \in TicketEvents /\ admission.run \in RunIds /\ Logged(t, e)
    /\ DrivenBy(admission.run, t) /\ t[1] <= driver.launch
    /\ e = "COMPLETE" => Has(Trace(admission.run, t), "ADMIT")
    /\ handling' \subseteq handling \cup {t}
    /\ \A r \in RunIds, u \in Tickets :
          r # admission.run \/ u # t => tickets'[r][u] = tickets[r][u]
    /\ tickets'[admission.run][t] = "ADMITTED" =>
          e = "ADMIT" \/ tickets[admission.run][t] = "ADMITTED"
    /\ driver.pc \in {"load", "read"} =>
          \A i \in Clients : session[i] = "COMPLETED" \/ (e = "COMPLETE" /\ Ticket(i) = t) =>
                                session'[i] = "COMPLETED"
    /\ driver.pc = "load" =>
          \A i \in Clients : session'[i] = "fetching" => session[i] = "fetching"

LEMMA LoggingKeepsLogInv ==
    ASSUME Assumptions, IInv, LogInv, NEW t, NEW e, Logging(t, e)
    PROVE  LogInv'
<1>1. PICK a \in RunIds : a = admission.run
  BY DEF Logging
<1>2. /\ t \in Tickets /\ e \in TicketEvents /\ admission \in AdmissionType
      /\ t[1] \in Nat /\ driver.launch \in Nat /\ t[1] <= driver.launch
      /\ admission.buffer[t] \in Seq(TicketEvents) /\ files[a].tickets[t] \in Seq(TicketEvents)
      /\ admission'.run = a
      /\ admission'.buffer = [admission.buffer EXCEPT ![t] = Append(@, e)]
  <2>1. t \in Tickets /\ e \in TicketEvents /\ t[1] <= driver.launch /\ Logged(t, e)
    BY DEF Logging
  <2>2. driver.launch \in Nat
    BY DEF IInv, DriverOK, DriverType, Assumptions, LoadAssumption
  <2>3. admission \in AdmissionType
    BY DEF IInv, ServiceOK
  <2>4. admission'.run = a /\ admission'.buffer = [admission.buffer EXCEPT ![t] = Append(@, e)]
    BY <1>1, <2>1, <2>3 DEF Logged, AdmissionType
  <2> QED BY <2>1, <2>2, <2>3, <2>4, TicketParts, LogTypes
<1>3. \A i : Ticket(i)' = Ticket(i)
  BY DEF Logging, Ticket
<1>4. ASSUME NEW r \in RunIds, NEW u \in Tickets
      PROVE  Trace(r, u)' = IF r = a /\ u = t THEN Append(Trace(r, u), e) ELSE Trace(r, u)
  <2>1. files' = files /\ admission.buffer \in [Tickets -> Seq(TicketEvents)]
    BY <1>2 DEF Logging, AdmissionType
  <2>2. CASE r = a /\ u = t
    <3>1. admission'.buffer[t] = Append(admission.buffer[t], e)
      BY <1>2, <2>1
    <3>2. Trace(a, t) = files[a].tickets[t] \o admission.buffer[t]
      BY <1>1 DEF Trace
    <3>3. (Trace(a, t))' = files[a].tickets[t] \o Append(admission.buffer[t], e)
      BY <1>2, <2>1, <3>1 DEF Trace
    <3>4. (Trace(a, t))' = Append(Trace(a, t), e)
      <4>1. PICK f \in Seq(TicketEvents), b \in Seq(TicketEvents) :
               f = files[a].tickets[t] /\ b = admission.buffer[t]
        BY <1>2
      <4>2. f \o Append(b, e) = Append(f \o b, e)
        BY <1>2, AppendToBuffer
      <4> QED BY <3>2, <3>3, <4>1, <4>2
    <3> QED BY <2>2, <3>4, Zenon
  <2>3. CASE r # a \/ u # t
    BY <1>1, <1>2, <2>1, <2>3 DEF Trace
  <2> QED BY <2>2, <2>3
<1>5. /\ Append(Trace(a, t), e) # << >>
      /\ \A x : Has(Append(Trace(a, t), e), x) <=> Has(Trace(a, t), x) \/ x = e
      /\ AdmittedFirst(Append(Trace(a, t), e))
  <2>1. Trace(a, t) \in Seq(TicketEvents)
    BY <1>2, LogTypes
  <2>2. AdmittedFirst(Trace(a, t)) /\ (e = "COMPLETE" => Has(Trace(a, t), "ADMIT"))
    BY <1>1, <1>2 DEF LogInv, InOrder, Logging
  <2> QED BY <1>2, <2>1, <2>2, TraceGrows
<1>6. ASSUME NEW r \in RunIds, NEW u \in Tickets, NEW x
      PROVE  Has(Trace(r, u)', x) <=> Has(Trace(r, u), x) \/ (r = a /\ u = t /\ x = e)
  BY <1>4, <1>5
<1>7. NotYet'
  <2>1. \A u \in Tickets : u[1] > driver'.launch => u # t
    BY <1>2 DEF Logging
  <2>2. ASSUME NEW u \in Tickets, u[1] > driver'.launch
        PROVE  u \notin handling' /\ \A r \in RunIds : Trace(r, u)' = << >> /\ tickets'[r][u] = "NONE"
    BY <1>4, <2>1, <2>2 DEF LogInv, NotYet, Logging
  <2> QED BY <2>2 DEF NotYet
<1>8. OwnLoad'
  <2>1. \A r, u : DrivenBy(r, u)' = DrivenBy(r, u)
    BY DEF DrivenBy, Logging
  <2>2. DrivenBy(a, t)
    BY <1>1 DEF Logging
  <2>3. ASSUME NEW r \in RunIds, NEW u \in Tickets, Trace(r, u)' # << >> \/ tickets'[r][u] # "NONE"
        PROVE  DrivenBy(r, u)'
    BY <1>1, <1>4, <2>1, <2>2, <2>3 DEF LogInv, OwnLoad, Logging
  <2>4. \A u \in handling' : DrivenBy(a, u)'
    BY <1>1, <2>1, <2>2 DEF LogInv, OwnLoad, Logging
  <2>5. driver'.pc \in {"load", "read"} => drove'[driver'.launch] = populations'[Run'.seed]
    BY DEF LogInv, OwnLoad, Logging, Run
  <2>6. \A u \in handling' : DrivenBy(admission.run, u)'
    BY <1>2, <2>4 DEF DrivenBy
  <2> QED BY <2>3, <2>5, <2>6 DEF OwnLoad
<1>9. InOrder'
  <2>1. ASSUME NEW r \in RunIds, NEW u \in Tickets
        PROVE  AdmittedFirst(Trace(r, u)')
    BY <1>4, <1>5 DEF LogInv, InOrder
  <2>2. \A r, u : AdmittedFirst(Trace(r, u))' <=> AdmittedFirst(Trace(r, u)')
    BY DEF AdmittedFirst
  <2> QED BY <2>1, <2>2 DEF InOrder
<1>10. SessionsOK'
  <2>1. PICK r \in RunIds : r = Run
    BY RunIsRun DEF IInv, DriverOK
  <2>2. /\ Run' = r /\ driver'.pc = driver.pc
        /\ driver.pc \in {"load", "read"} => a = r
    BY <1>1, <2>1 DEF Logging, Run, IInv, ModeOK
  <2>3. ASSUME driver.pc \in {"load", "read"}, NEW i \in Clients
        PROVE  /\ Ticket(i) \in Tickets
               /\ \A x : Has(Trace(Run, Ticket(i)), x)'
                          <=> Has(Trace(Run, Ticket(i)), x) \/ (Ticket(i) = t /\ x = e)
    <3>1. Ticket(i) \in Tickets
      BY <2>3, TicketOfLoad
    <3>2. PICK u \in Tickets : u = Ticket(i)
      BY <3>1
    <3>3. \A x : Has(Trace(Run, Ticket(i)), x)' <=> Has(Trace(r, u)', x)
      BY <1>3, <2>2, <3>2 DEF Has, Trace
    <3> QED BY <1>6, <2>1, <2>2, <2>3, <3>1, <3>2, <3>3
  <2>4. ASSUME driver'.pc \in {"load", "read"}, NEW i \in Clients,
               Has(Trace(Run, Ticket(i)), "COMPLETE")'
        PROVE  session'[i] = "COMPLETED"
    <3>1. Has(Trace(Run, Ticket(i)), "COMPLETE") \/ (Ticket(i) = t /\ e = "COMPLETE")
      BY <2>2, <2>3, <2>4
    <3> QED BY <2>2, <2>4, <3>1 DEF LogInv, SessionsOK, Logging
  <2>5. ASSUME driver'.pc = "load", NEW i \in Clients,
               session'[i] = "fetching" \/ tickets'[Run'][Ticket(i)'] = "ADMITTED"
        PROVE  Has(Trace(Run, Ticket(i)), "ADMIT")'
    <3>1. \/ session[i] = "fetching" \/ tickets[Run][Ticket(i)] = "ADMITTED"
          \/ Ticket(i) = t /\ e = "ADMIT"
      <4>1. driver.pc = "load" /\ a = Run /\ Ticket(i) \in Tickets /\ Run' = Run /\ Run \in RunIds
        BY <2>1, <2>2, <2>3, <2>5
      <4>2. CASE session'[i] = "fetching"
        BY <4>1, <4>2 DEF Logging
      <4>3. CASE tickets'[Run][Ticket(i)] = "ADMITTED"
        BY <1>1, <4>1, <4>3 DEF Logging
      <4> QED BY <1>3, <2>5, <4>1, <4>2, <4>3
    <3>2. Has(Trace(Run, Ticket(i)), "ADMIT") \/ (Ticket(i) = t /\ e = "ADMIT")
      BY <2>2, <2>5, <3>1 DEF LogInv, SessionsOK
    <3> QED BY <2>2, <2>3, <2>5, <3>2
  <2> QED BY <2>4, <2>5 DEF SessionsOK
<1>11. RecordsUpheld'
  BY RecordsStay DEF LogInv, Logging
<1> QED BY <1>7, <1>8, <1>9, <1>10, <1>11 DEF LogInv

\* Lines go from the buffer to the file: no trace changes, and no file loses any.
Storing ==
    /\ UNCHANGED <<driver, populations, tickets, handling, session, drove, records>>
    /\ admission'.run = admission.run
    /\ \A r \in RunIds :
          /\ files[r].modes \subseteq files'[r].modes
          /\ \A t \in Tickets :
                /\ Trace(r, t)' = Trace(r, t)
                /\ \A e : Has(files[r].tickets[t], e) => Has(files'[r].tickets[t], e)

LEMMA RecordParts ==
    ASSUME RecordsOK, NEW k \in DOMAIN records
    PROVE  /\ records[k].run \in RunIds
           /\ records[k].joined \subseteq Tickets /\ records[k].completed \subseteq Tickets
<1>1. records[k] \in RunRecord
  BY DEF RecordsOK
<1> QED BY <1>1 DEF RunRecord

LEMMA StoringKeepsLogInv ==
    ASSUME Assumptions, IInv, LogInv, Storing
    PROVE  LogInv'
<1>1. NotYet'
  BY DEF LogInv, NotYet, Storing
<1>2. \A r, t : DrivenBy(r, t)' = DrivenBy(r, t)
  BY DEF DrivenBy, Storing
<1>3. OwnLoad'
  <2>1. ASSUME NEW r \in RunIds, NEW t \in Tickets, Trace(r, t)' # << >> \/ tickets'[r][t] # "NONE"
        PROVE  DrivenBy(r, t)'
    BY <1>2, <2>1 DEF LogInv, OwnLoad, Storing
  <2>2. \A t \in handling' : DrivenBy(admission.run, t)'
    BY DEF DrivenBy, LogInv, OwnLoad, Storing
  <2>3. driver'.pc \in {"load", "read"} => drove'[driver'.launch] = populations'[Run'.seed]
    BY DEF LogInv, OwnLoad, Storing, Run
  <2> QED BY <2>1, <2>2, <2>3 DEF OwnLoad
<1>4. InOrder'
  <2>1. ASSUME NEW r \in RunIds, NEW t \in Tickets
        PROVE  AdmittedFirst(Trace(r, t))'
    <3>1. AdmittedFirst(Trace(r, t)) /\ Trace(r, t)' = Trace(r, t)
      BY DEF LogInv, InOrder, Storing
    <3> QED BY <3>1 DEF AdmittedFirst
  <2> QED BY <2>1 DEF InOrder
<1>5. SessionsOK'
  <2>1. PICK r \in RunIds : r = Run
    BY RunIsRun DEF IInv, DriverOK
  <2>2. Run' = r /\ driver' = driver /\ session' = session /\ tickets' = tickets
    BY <2>1 DEF Storing, Run
  <2>3. ASSUME driver.pc \in {"load", "read"}, NEW i \in Clients
        PROVE  /\ Ticket(i)' = Ticket(i)
               /\ \A x : Has(Trace(Run, Ticket(i)), x)' <=> Has(Trace(Run, Ticket(i)), x)
    <3>1. Ticket(i)' = Ticket(i)
      BY <2>2 DEF Ticket
    <3>2. PICK u \in Tickets : u = Ticket(i)
      BY <2>3, TicketOfLoad
    <3>3. Trace(r, u)' = Trace(r, u)
      BY DEF Storing
    <3>4. \A x : Has(Trace(Run, Ticket(i)), x)' <=> Has(Trace(r, u)', x)
      BY <2>2, <3>1, <3>2 DEF Has, Trace
    <3> QED BY <2>1, <3>1, <3>2, <3>3, <3>4
  <2>4. ASSUME driver'.pc \in {"load", "read"}, NEW i \in Clients,
               Has(Trace(Run, Ticket(i)), "COMPLETE")'
        PROVE  session'[i] = "COMPLETED"
    BY <2>2, <2>3, <2>4 DEF LogInv, SessionsOK
  <2>5. ASSUME driver'.pc = "load", NEW i \in Clients,
               session'[i] = "fetching" \/ tickets'[Run'][Ticket(i)'] = "ADMITTED"
        PROVE  Has(Trace(Run, Ticket(i)), "ADMIT")'
    BY <2>1, <2>2, <2>3, <2>5 DEF LogInv, SessionsOK
  <2> QED BY <2>4, <2>5 DEF SessionsOK
<1>6. RecordsUpheld'
  <2>1. records' = records /\ populations' = populations
    BY DEF Storing
  <2>2. ASSUME NEW k \in DOMAIN records
        PROVE  Upheld(records[k])'
    <3>1. PICK d : d = records[k] /\ d.run \in RunIds
      BY RecordParts DEF IInv
    <3> DEFINE r == d.run
    <3>2. Upheld(d) /\ d.joined \subseteq Tickets /\ d.completed \subseteq Tickets
      BY <3>1, RecordParts DEF LogInv, RecordsUpheld, IInv
    <3>3. /\ files[r].modes \subseteq files'[r].modes
          /\ \A t \in Tickets : \A e : Has(files[r].tickets[t], e) => Has(files'[r].tickets[t], e)
      BY <3>1 DEF Storing
    <3>4. files'[r].modes # {}
      BY <3>1, <3>2, <3>3 DEF Upheld
    <3>5. /\ \A t \in d.joined : Has(files'[r].tickets[t], "JOIN")
          /\ \A t \in d.completed : /\ Has(files'[r].tickets[t], "JOIN")
                                    /\ Has(files'[r].tickets[t], "COMPLETE")
      BY <3>1, <3>2, <3>3 DEF Upheld
    <3>6. d.n = populations'[r.seed] /\ d.n # 0
      BY <2>1, <3>1, <3>2 DEF Upheld
    <3> QED BY <2>1, <3>1, <3>4, <3>5, <3>6 DEF Upheld, Has
  <2> QED BY <2>1, <2>2 DEF RecordsUpheld
<1> QED BY <1>1, <1>3, <1>4, <1>5, <1>6 DEF LogInv
-----------------------------------------------------------------------------
(* The steps that are of no kind *)

LEMMA LogInvInit == ASSUME Assumptions, Init PROVE LogInv
<1>1. \A r \in RunIds, t \in Tickets : Trace(r, t) = << >> /\ tickets[r][t] = "NONE"
  BY RunTypes DEF Init, Trace, NoLines, Assumptions
<1>2. handling = {} /\ driver.pc = "idle" /\ records = << >>
  BY DEF Init
<1>3. NotYet /\ OwnLoad
  BY <1>1, <1>2 DEF NotYet, OwnLoad
<1>4. InOrder
  BY <1>1, EmptyTrace DEF InOrder
<1>5. SessionsOK /\ RecordsUpheld
  BY <1>2 DEF SessionsOK, RecordsUpheld
<1> QED BY <1>3, <1>4, <1>5 DEF LogInv

\* What the old container had not stored is gone.
LEMMA RecreateKeepsLogInv ==
    ASSUME Assumptions, IInv, LogInv, RecreateServices
    PROVE  LogInv'
<1>1. /\ UNCHANGED <<populations, tickets, files, drove, records>>
      /\ handling' = {} /\ admission'.buffer = NoLines
      /\ driver' = [driver EXCEPT !.pc = "wait"]
  BY DEF RecreateServices, Goto, crowd
<1>2. driver'.pc = "wait" /\ driver'.launch = driver.launch
  BY <1>1, GotoFacts DEF PCs, IInv, DriverOK
<1>3. ASSUME NEW r \in RunIds, NEW t \in Tickets
      PROVE  /\ (Trace(r, t))' = files[r].tickets[t]
             /\ AdmittedFirst(Trace(r, t)) => AdmittedFirst(files[r].tickets[t])
             /\ files[r].tickets[t] # << >> => Trace(r, t) # << >>
  <2>1. files[r].tickets[t] \in Seq(TicketEvents) /\ admission.buffer[t] \in Seq(TicketEvents)
        /\ files[r].tickets[t] \o << >> = files[r].tickets[t]
    BY LogTypes, FileIsPrefix
  <2>2. (Trace(r, t))' = files[r].tickets[t]
    BY <1>1, <2>1 DEF Trace, NoLines
  <2>3. \/ Trace(r, t) = files[r].tickets[t]
        \/ Trace(r, t) = files[r].tickets[t] \o admission.buffer[t]
    BY DEF Trace
  <2>4. PICK f, b : f = files[r].tickets[t] /\ b = admission.buffer[t]
    OBVIOUS
  <2>5. /\ AdmittedFirst(f \o b) => AdmittedFirst(f)
        /\ f # << >> => f \o b # << >>
    BY <2>1, <2>4, FileIsPrefix
  <2>6. CASE Trace(r, t) = f
    BY <2>2, <2>4, <2>6
  <2>7. CASE Trace(r, t) = f \o b
    BY <2>2, <2>4, <2>5, <2>7
  <2> QED BY <2>3, <2>4, <2>6, <2>7
<1>4. NotYet'
  BY <1>1, <1>2, <1>3 DEF LogInv, NotYet
<1>5. OwnLoad'
  <2>1. ASSUME NEW r \in RunIds, NEW t \in Tickets, (Trace(r, t))' # << >> \/ tickets'[r][t] # "NONE"
        PROVE  DrivenBy(r, t)'
    <3>1. DrivenBy(r, t)
      BY <1>1, <1>3, <2>1 DEF LogInv, OwnLoad
    <3> QED BY <1>1, <3>1 DEF DrivenBy
  <2> QED BY <1>1, <1>2, <2>1 DEF OwnLoad
<1>6. InOrder'
  <2>1. ASSUME NEW r \in RunIds, NEW t \in Tickets PROVE AdmittedFirst(Trace(r, t))'
    <3>1. AdmittedFirst(files[r].tickets[t])
      BY <1>3 DEF LogInv, InOrder
    <3> QED BY <1>3, <3>1 DEF AdmittedFirst
  <2> QED BY <2>1 DEF InOrder
<1>7. SessionsOK'
  BY <1>2 DEF SessionsOK
<1>8. RecordsUpheld'
  BY <1>1, RecordsStay DEF LogInv
<1> QED BY <1>4, <1>5, <1>6, <1>7, <1>8 DEF LogInv

LEMMA FlushKeepsLogInv ==
    ASSUME Assumptions, IInv, LogInv, FlushAll, driver'.pc = "launch"
    PROVE  LogInv'
<1>1. /\ UNCHANGED <<populations, admission, handling, files, drove>>
      /\ driver'.launch = driver.launch /\ records' = records
      /\ \A r \in RunIds, t \in Tickets : tickets'[r][t] = "NONE"
  <2>1. ~Fail
    BY GotoFacts DEF Fail, PCs, IInv, DriverOK
  <2>2. driver' = [driver EXCEPT !.pc = "launch"] /\ records' = records
        /\ tickets' = [r \in RunIds |-> [t \in Tickets |-> "NONE"]]
    BY <2>1 DEF FlushAll, Goto
  <2>3. driver'.launch = driver.launch
    BY <2>2, GotoFacts DEF PCs, IInv, DriverOK
  <2> QED BY <2>2, <2>3 DEF FlushAll
<1>2. \A r, t : Trace(r, t)' = Trace(r, t) /\ DrivenBy(r, t)' = DrivenBy(r, t)
  BY <1>1 DEF Trace, DrivenBy
<1>3. NotYet'
  BY <1>1, <1>2 DEF LogInv, NotYet
<1>4. OwnLoad'
  BY <1>1, <1>2 DEF LogInv, OwnLoad
<1>5. InOrder'
  BY <1>2 DEF LogInv, InOrder
<1>6. SessionsOK'
  BY DEF SessionsOK
<1>7. RecordsUpheld'
  BY <1>1, RecordsStay DEF LogInv
<1> QED BY <1>3, <1>4, <1>5, <1>6, <1>7 DEF LogInv

\* The tickets of the new load are those of which nothing is known yet.
LEMMA LaunchKeepsLogInv ==
    ASSUME Assumptions, IInv, LogInv, Launch
    PROVE  LogInv'
<1>1. /\ UNCHANGED <<populations, admission, tickets, handling, files, records>>
      /\ \A i \in Clients : session'[i] = "scheduled"
  BY DEF Launch, stack
<1>2. PICK l : l = driver.launch + 1
  OBVIOUS
<1>3. /\ driver.launch \in Nat /\ l \in 1 .. LaunchBound
      /\ driver'.launch = l /\ driver'.pc = "load" /\ Run' = Run
  BY <1>2 DEF Launch, IInv, DriverOK, DriverType, LoadOK, Run, Assumptions, LoadAssumption
<1>4. /\ drove' = [drove EXCEPT ![l] = populations[Run.seed]]
      /\ drove \in [1 .. LaunchBound -> LoadSizes \cup {0}]
  BY <1>2 DEF Launch, IInv, DriverOK
<1>5. \A r, t : Trace(r, t)' = Trace(r, t)
  BY <1>1 DEF Trace
<1>6. \A t \in Tickets : t[1] \in Nat
  BY TicketParts
<1>7. ASSUME NEW t \in Tickets, t[1] >= l
      PROVE  /\ t \notin handling
             /\ \A r \in RunIds : Trace(r, t) = << >> /\ tickets[r][t] = "NONE"
  BY <1>2, <1>3, <1>6, <1>7 DEF LogInv, NotYet
<1>8. NotYet'
  <2>1. ASSUME NEW t \in Tickets, t[1] > driver'.launch
        PROVE  t \notin handling' /\ \A r \in RunIds : Trace(r, t)' = << >> /\ tickets'[r][t] = "NONE"
    BY <1>1, <1>3, <1>5, <1>6, <1>7, <2>1
  <2> QED BY <2>1 DEF NotYet
<1>9. OwnLoad'
  <2>1. ASSUME NEW r, NEW t \in Tickets, t[1] # l, DrivenBy(r, t)
        PROVE  DrivenBy(r, t)'
    BY <1>1, <1>4, <2>1 DEF DrivenBy
  <2>2. ASSUME NEW r \in RunIds, NEW t \in Tickets, Trace(r, t)' # << >> \/ tickets'[r][t] # "NONE"
        PROVE  DrivenBy(r, t)'
    <3>1. t[1] # l
      BY <1>1, <1>3, <1>5, <1>6, <1>7, <2>2
    <3>2. DrivenBy(r, t)
      BY <1>1, <1>5, <2>2 DEF LogInv, OwnLoad
    <3> QED BY <2>1, <3>1, <3>2
  <2>3. ASSUME NEW t \in handling'
        PROVE  DrivenBy(admission.run, t)'
    <3>1. t \in handling /\ t \in Tickets
      BY <1>1 DEF IInv, ServiceOK
    <3>2. DrivenBy(admission.run, t) /\ t[1] # l
      BY <1>3, <1>6, <1>7, <3>1 DEF LogInv, OwnLoad
    <3>3. PICK r : r = admission.run
      OBVIOUS
    <3>4. DrivenBy(r, t)'
      BY <2>1, <3>1, <3>2, <3>3
    <3> QED BY <1>1, <3>3, <3>4 DEF DrivenBy
  <2>4. drove'[driver'.launch] = populations'[Run'.seed]
    BY <1>1, <1>3, <1>4
  <2> QED BY <2>2, <2>3, <2>4 DEF OwnLoad
<1>10. InOrder'
  BY <1>5 DEF LogInv, InOrder
<1>11. SessionsOK'
  <2>1. ASSUME NEW i \in Clients
        PROVE  /\ ~Has(Trace(Run, Ticket(i)), "COMPLETE")'
               /\ session'[i] = "scheduled" /\ tickets'[Run'][Ticket(i)'] = "NONE"
    <3>1. PICK t \in Tickets : t = <<l, i>> /\ t[1] = l
      <4>1. <<l, i>> \in Tickets /\ <<l, i>>[1] = l
        BY <1>3 DEF Tickets
      <4> QED BY <4>1
    <3>2. Ticket(i)' = t
      BY <1>3, <3>1 DEF Ticket
    <3>3. PICK r \in RunIds : r = Run
      BY RunIsRun DEF IInv, DriverOK
    <3>4. Trace(r, t) = << >> /\ tickets[r][t] = "NONE"
      BY <1>3, <1>7, <3>1
    <3>5. (Trace(Run, Ticket(i)))' = Trace(r, t)
      BY <1>1, <1>3, <3>2, <3>3 DEF Trace
    <3>6. ~Has(Trace(Run, Ticket(i)), "COMPLETE")'
      BY <3>4, <3>5 DEF Has
    <3> QED BY <1>1, <1>3, <3>2, <3>3, <3>4, <3>6
  <2> QED BY <2>1 DEF SessionsOK
<1>12. RecordsUpheld'
  BY <1>1, RecordsStay DEF LogInv
<1> QED BY <1>8, <1>9, <1>10, <1>11, <1>12 DEF LogInv


\* A population that is there stays.
LEMMA PopulationKeepsLogInv ==
    ASSUME Assumptions, IInv, LogInv, ensure_population, driver'.pc # "idle"
    PROVE  LogInv'
<1>1. /\ UNCHANGED <<admission, tickets, handling, files, drove, records>>
      /\ driver' = [driver EXCEPT !.pc = "configure"]
      /\ populations[Run.seed] \in {0, driver.n}
      /\ populations' = [populations EXCEPT ![Run.seed] = driver.n]
  <2>1. ~Fail
    BY GotoFacts DEF Fail, PCs, IInv, DriverOK
  <2> QED BY <2>1 DEF ensure_population, Goto, stack
<1>2. driver'.pc = "configure" /\ driver'.launch = driver.launch
  BY <1>1, GotoFacts DEF PCs, IInv, DriverOK
<1>3. \A s \in Seeds : populations[s] # 0 => populations'[s] = populations[s]
  BY <1>1 DEF IInv, DriverOK
<1>4. \A r, t : Trace(r, t)' = Trace(r, t)
  BY <1>1 DEF Trace
<1>5. \A r, t : r.seed \in Seeds /\ DrivenBy(r, t) => DrivenBy(r, t)'
  BY <1>1, <1>3 DEF DrivenBy
<1>6. NotYet'
  BY <1>1, <1>2, <1>4 DEF LogInv, NotYet
<1>7. OwnLoad'
  <2>1. \A r \in RunIds : r.seed \in Seeds
    BY DEF Seeds
  <2>2. ASSUME NEW r \in RunIds, NEW t \in Tickets, Trace(r, t)' # << >> \/ tickets'[r][t] # "NONE"
        PROVE  DrivenBy(r, t)'
    BY <1>1, <1>4, <1>5, <2>1, <2>2 DEF LogInv, OwnLoad
  <2>3. ASSUME NEW t \in handling'
        PROVE  DrivenBy(admission.run, t)'
    <3>1. PICK r : r = admission.run
      OBVIOUS
    <3>2. r \in RunIds /\ DrivenBy(r, t)
      BY <1>1, <2>3, <3>1 DEF IInv, ModeOK, ServiceOK, AdmissionType, LogInv, OwnLoad
    <3>3. DrivenBy(r, t)'
      BY <1>5, <2>1, <3>2
    <3> QED BY <1>1, <3>1, <3>3 DEF DrivenBy
  <2> QED BY <1>2, <2>2, <2>3 DEF OwnLoad
<1>8. InOrder'
  BY <1>4 DEF LogInv, InOrder
<1>9. SessionsOK'
  BY <1>2 DEF SessionsOK
<1>10. RecordsUpheld'
  <2>1. ASSUME NEW k \in DOMAIN records
        PROVE  Upheld(records[k])'
    <3>1. PICK d : d = records[k] /\ d.run.seed \in Seeds
      BY RecordParts DEF IInv, Seeds
    <3>2. Upheld(d)
      BY <3>1 DEF LogInv, RecordsUpheld
    <3>3. d.n = populations'[d.run.seed]
      BY <1>3, <3>1, <3>2 DEF Upheld
    <3> QED BY <1>1, <3>1, <3>2, <3>3 DEF Upheld, Has
  <2> QED BY <1>1, <2>1 DEF RecordsUpheld
<1> QED BY <1>6, <1>7, <1>8, <1>9, <1>10 DEF LogInv

LEMMA TimesIsHas ==
    ASSUME NEW s \in Seq(TicketEvents), NEW e
    PROVE  Times(s, e) \in Nat /\ (Times(s, e) > 0 <=> Has(s, e))
<1> DEFINE where == {i \in DOMAIN s : s[i] = e}
<1>1. IsFiniteSet(where)
  BY LenProperties, FS_Interval, FS_Subset
<1>2. Cardinality(where) \in Nat /\ (Cardinality(where) = 0 <=> where = {})
  BY <1>1, FS_CardinalityType, FS_EmptySet
<1>3. where # {} <=> Has(s, e)
  BY DEF Has
<1> HIDE DEF where
<1> QED BY <1>2, <1>3 DEF Times, where

LEMMA TraceSays ==
    ASSUME NEW s
    PROVE  /\ trace_of(s).joined = (Times(s, "JOIN") > 0)
           /\ trace_of(s).completed_ok = (Times(s, "COMPLETE") > 0)
           /\ trace_of(s).admits = Times(s, "ADMIT")
<1> DEFINE x == Times(s, "JOIN") > 0
           y == Times(s, "COMPLETE") > 0
           z == Times(s, "ADMIT")
<1>1. trace_of(s) = [joined |-> x, completed_ok |-> y, admits |-> z,
                     timeouts |-> Times(s, "TIMEOUT"), requeues |-> Times(s, "REQUEUE")]
  BY DEF trace_of
<1> HIDE DEF x, y, z
<1>2. trace_of(s).joined = x /\ trace_of(s).completed_ok = y /\ trace_of(s).admits = z
  BY <1>1
<1> QED BY <1>2 DEF x, y, z

\* A record of a log: who is in it and what it says of them.
LEMMA RecordSays ==
    ASSUME NEW r \in RunIds, NEW log \in Log
    PROVE  /\ RecordOf(r, log).run = r /\ RecordOf(r, log).n = populations[r.seed]
           /\ RecordOf(r, log).joined = {t \in Tickets : Has(log.tickets[t], "JOIN")}
           /\ RecordOf(r, log).completed = {t \in Tickets : /\ Has(log.tickets[t], "JOIN")
                                                            /\ Has(log.tickets[t], "COMPLETE")}
           /\ \A t \in RecordOf(r, log).completed :
                 RecordOf(r, log).attempts[t] = Times(log.tickets[t], "ADMIT")
<1> DEFINE class == [t \in Tickets |-> label(populations[r.seed], t[2])]
           traces == build_traces(log)
           usable == {t \in DOMAIN traces : traces[t].joined}
           completed == {t \in usable : traces[t].completed_ok}
           attempts == [t \in Tickets |-> IF t \in completed THEN traces[t].admits ELSE 0]
<1>1. DOMAIN log.tickets = Tickets /\ \A t \in Tickets : log.tickets[t] \in Seq(TicketEvents)
  BY DEF Log
<1>2. /\ DOMAIN traces = {t \in Tickets : log.tickets[t] # << >>}
      /\ \A t \in DOMAIN traces : traces[t] = trace_of(log.tickets[t])
  BY <1>1 DEF build_traces
<1>3. \A t \in Tickets : \A e : Has(log.tickets[t], e) => log.tickets[t] # << >>
  BY EmptyTrace
<1>4. \A t \in DOMAIN traces :
          /\ traces[t].joined <=> Has(log.tickets[t], "JOIN")
          /\ traces[t].completed_ok <=> Has(log.tickets[t], "COMPLETE")
          /\ traces[t].admits = Times(log.tickets[t], "ADMIT")
  <2>1. ASSUME NEW t \in DOMAIN traces
        PROVE  /\ traces[t].joined = (Times(log.tickets[t], "JOIN") > 0)
               /\ traces[t].completed_ok = (Times(log.tickets[t], "COMPLETE") > 0)
               /\ traces[t].admits = Times(log.tickets[t], "ADMIT")
    <3>1. traces[t] = trace_of(log.tickets[t])
      BY <1>2
    <3> HIDE DEF traces
    <3> QED BY <3>1, TraceSays
  <2>2. ASSUME NEW t \in DOMAIN traces, NEW e
        PROVE  Times(log.tickets[t], e) > 0 <=> Has(log.tickets[t], e)
    BY <1>1, <1>2, TimesIsHas
  <2> HIDE DEF traces
  <2> QED BY <2>1, <2>2, Zenon
<1>5. usable = {t \in Tickets : Has(log.tickets[t], "JOIN")}
  <2> HIDE DEF traces
  <2> QED BY <1>2, <1>3, <1>4
<1>6. completed = {t \in Tickets : Has(log.tickets[t], "JOIN") /\ Has(log.tickets[t], "COMPLETE")}
  <2> HIDE DEF traces
  <2> QED BY <1>2, <1>4, <1>5
<1>7. \A t \in completed : t \in Tickets /\ attempts[t] = Times(log.tickets[t], "ADMIT")
  <2>1. \A t \in completed : t \in Tickets /\ t \in DOMAIN traces
    BY <1>6
  <2> HIDE DEF traces, completed
  <2> QED BY <1>4, <2>1
<1>8. compute(log, class).overall.joined = usable /\ compute(log, class).overall.completed = completed
  BY DEF compute, class_metrics
<1>9. \A t \in completed : compute(log, class).attempts[t] = traces[t].admits
  BY <1>8 DEF compute, class_metrics
<1>10. /\ RecordOf(r, log).run = r /\ RecordOf(r, log).n = populations[r.seed]
       /\ RecordOf(r, log).joined = usable /\ RecordOf(r, log).completed = completed
       /\ RecordOf(r, log).attempts = attempts
  <2> HIDE DEF traces, usable, completed
  <2> QED BY <1>8, <1>9 DEF RecordOf
<1> HIDE DEF traces, usable, completed, attempts
<1> QED BY <1>5, <1>6, <1>7, <1>10


LEMMA NewRecordIsUpheld ==
    ASSUME Assumptions, IInv, driver.pc = "read", is_single_mode(files[Run])
    PROVE  Upheld(RecordOf(Run, files[Run]))
<1>1. Run \in RunIds /\ files[Run] \in Log /\ driver.n # 0 /\ populations[Run.seed] = driver.n
  BY RunIsRun
     DEF IInv, DriverOK, DriverType, ServiceOK, PopulationOK, Assumptions, LoadAssumption
<1>2. files[Run].modes # {}
  BY FS_EmptySet DEF is_single_mode
<1>3. PICK d : d = RecordOf(Run, files[Run])
  OBVIOUS
<1>4. /\ d.run = Run /\ d.n = populations[Run.seed]
      /\ \A t \in d.joined : Has(files[Run].tickets[t], "JOIN")
      /\ \A t \in d.completed : /\ Has(files[Run].tickets[t], "JOIN")
                                /\ Has(files[Run].tickets[t], "COMPLETE")
  BY <1>1, <1>3, RecordSays
<1> QED BY <1>1, <1>2, <1>3, <1>4 DEF Upheld

\* Where the driver is after it has read a log.
LEMMA AfterRead ==
    ASSUME Assumptions, IInv, Read
    PROVE  driver'.pc \notin {"load", "read"} /\ driver'.launch = driver.launch
<1>1. driver \in DriverType
  BY DEF IInv, DriverOK
<1>2. CASE driver' = [driver EXCEPT !.pc = "idle"]
  BY <1>1, <1>2, GotoFacts DEF PCs
<1>3. CASE driver' = [driver EXCEPT !.run = @ + 1,
               !.pc = IF Matrix[driver.run + 1].seed = Run.seed THEN "configure" ELSE "population"]
  <2>1. PICK p, k : /\ p = IF Matrix[driver.run + 1].seed = Run.seed THEN "configure" ELSE "population"
                    /\ k = driver.run + 1
    OBVIOUS
  <2>2. driver' = [driver EXCEPT !.run = k, !.pc = p]
    BY <1>3, <2>1
  <2>3. driver'.pc = p /\ driver'.launch = driver.launch
    BY <1>1, <2>2 DEF DriverType
  <2> QED BY <2>1, <2>3
<1> QED BY <1>2, <1>3 DEF Read, Fail

LEMMA ReadKeepsLogInv ==
    ASSUME Assumptions, IInv, LogInv, Read
    PROVE  LogInv'
<1>1. /\ UNCHANGED <<populations, config, admission, tickets, handling, timeouts, files, drove>>
      /\ driver'.pc \notin {"load", "read"} /\ driver'.launch = driver.launch
  BY AfterRead DEF Read, stack
<1>2. \A r, t : Trace(r, t)' = Trace(r, t) /\ DrivenBy(r, t)' = DrivenBy(r, t)
  BY <1>1 DEF Trace, DrivenBy
<1>3. NotYet'
  BY <1>1, <1>2 DEF LogInv, NotYet
<1>4. OwnLoad'
  BY <1>1, <1>2 DEF LogInv, OwnLoad
<1>5. InOrder'
  BY <1>2 DEF LogInv, InOrder
<1>6. SessionsOK'
  BY <1>1 DEF SessionsOK
<1>7. RecordsUpheld'
  <2>1. CASE records' = << >>
    BY <1>1, <2>1, RecordsStay DEF LogInv
  <2>2. CASE driver.pc = "read" /\ is_single_mode(files[Run])
             /\ records' = Append(records, RecordOf(Run, files[Run]))
    <3>1. PICK d \in RunRecord : d = RecordOf(Run, files[Run])
      <4>1. Run \in RunIds /\ files[Run] \in Log /\ populations[Run.seed] \in LoadSizes
        BY <2>2, RunIsRun DEF IInv, DriverOK, DriverType, ServiceOK, PopulationOK
      <4> QED BY <4>1, RecordType
    <3>2. \A k \in DOMAIN records' : (k \in DOMAIN records /\ records'[k] = records[k]) \/ records'[k] = d
      BY <2>2, <3>1, AppendProperties, LenProperties DEF IInv, RecordsOK
    <3>3. \A k \in DOMAIN records' : Upheld(records'[k])
      BY <2>2, <3>1, <3>2, NewRecordIsUpheld DEF LogInv, RecordsUpheld
    <3>4. \A x : Upheld(x)' <=> Upheld(x)
      BY <1>1 DEF Upheld, Has
    <3>5. ASSUME NEW k \in DOMAIN records' PROVE Upheld(records[k])'
      BY <1>1, <3>3 DEF Upheld, Has
    <3> QED BY <3>5 DEF RecordsUpheld
  <2> QED BY <2>1, <2>2 DEF Read, Fail
<1> QED BY <1>3, <1>4, <1>5, <1>6, <1>7 DEF LogInv
-----------------------------------------------------------------------------
(* Of which kind each action is *)

\* The driver's steps that only move it.
LEMMA DriverIsQuiet ==
    ASSUME IInv,
           \/ Start \/ WriteConfig \/ UpFails \/ wait_for_admission
           \/ AwaitGenerator \/ LoadFails
           \/ (FlushAll /\ driver'.pc # "launch") \/ (ensure_population /\ driver'.pc = "idle")
    PROVE  Quiet
<1>1. driver \in DriverType
  BY DEF IInv, DriverOK
<1>2. ASSUME NEW p \in PCs, driver' = [driver EXCEPT !.pc = p]
      PROVE  driver'.pc = p /\ driver'.launch = driver.launch /\ Run' = Run
  BY <1>1, <1>2, GotoFacts DEF Run
<1>3. Fail => driver'.pc = "idle" /\ driver'.launch = driver.launch /\ records' = << >>
  BY <1>2 DEF Fail, PCs
<1>4. CASE Start
  <2>1. driver'.pc = "population" /\ driver'.launch = driver.launch
    BY <1>1, <1>4 DEF Start, DriverType
  <2> QED BY <1>4, <2>1 DEF Start, Quiet, stack
<1>5. CASE WriteConfig
  <2>1. driver'.pc = "up" /\ driver'.launch = driver.launch
    BY <1>2, <1>5 DEF WriteConfig, Goto, PCs
  <2> QED BY <1>5, <2>1 DEF WriteConfig, Goto, Quiet
<1>6. CASE UpFails
  BY <1>3, <1>6 DEF UpFails, Quiet, stack
<1>7. CASE wait_for_admission
  <2>1. Goto("flush") => driver'.pc = "flush" /\ driver'.launch = driver.launch /\ records' = records
    BY <1>2 DEF Goto, PCs
  <2> QED BY <1>3, <1>7, <2>1 DEF wait_for_admission, Quiet, stack
<1>8. CASE AwaitGenerator
  <2>1. driver.pc = "load" /\ driver'.pc \in {"load", "read"} /\ driver'.launch = driver.launch /\ Run' = Run
    BY <1>1, <1>8 DEF AwaitGenerator, DriverType, Run
  <2> QED BY <1>8, <2>1 DEF AwaitGenerator, Quiet, stack, crowd
<1>9. CASE LoadFails
  BY <1>3, <1>9 DEF LoadFails, Quiet, stack
<1>10. CASE FlushAll /\ driver'.pc # "launch"
  <2>1. Goto("launch") => driver'.pc = "launch"
    BY <1>2 DEF Goto, PCs
  <2> QED BY <1>3, <1>10, <2>1 DEF FlushAll, Quiet
<1>11. CASE ensure_population /\ driver'.pc = "idle"
  <2>1. Goto("configure") => driver'.pc = "configure"
    BY <1>2 DEF Goto, PCs
  <2> QED BY <1>3, <1>11, <2>1 DEF ensure_population, Quiet, stack
<1> QED BY <1>4, <1>5, <1>6, <1>7, <1>8, <1>9, <1>10, <1>11

\* Of the crowd's steps, those that the service does not log.
LEMMA CrowdIsQuiet ==
    ASSUME Assumptions, IInv,
           \/ \E c \in AccessClass : Generator(c)
           \/ \E i \in Clients : Fetch(i) \/ Unreported(i) \/ GiveUp(i)
           \/ \E i \in Clients : Join(i) /\ admission' = admission
           \/ Serve \/ UNCHANGED vars
    PROVE  Quiet
<1>1. CASE \E c \in AccessClass : Generator(c)
  BY <1>1 DEF Generator, GeneratorEnds, GeneratorFails, Quiet, stack, Run
<1>2. ASSUME NEW i \in Clients, Fetch(i)
      PROVE  Quiet
  <2>1. admission.run = Run /\ session' = [session EXCEPT ![i] = "fetching"] /\ session[i] = "polling"
        /\ tickets[Run][Ticket(i)] = "ADMITTED"
    BY <1>2, RunsFacts DEF Fetch
  <2>2. \A j \in Clients : session'[j] = IF j = i THEN "fetching" ELSE session[j]
    BY <2>1 DEF IInv, CrowdOK
  <2> QED BY <1>2, <2>1, <2>2 DEF Fetch, Quiet, stack, Run
<1>3. ASSUME NEW i \in Clients, Unreported(i) \/ GiveUp(i) \/ (Join(i) /\ admission' = admission)
      PROVE  Quiet
  <2>1. /\ UNCHANGED <<driver, populations, tickets, handling, files, drove, records, admission>>
        /\ session[i] # "COMPLETED"
        /\ \E s \in {"COMPLETED_UNREPORTED", "ABANDONED"} : session' = [session EXCEPT ![i] = s]
    <3>1. CASE Unreported(i) \/ GiveUp(i)
      BY <3>1 DEF Unreported, GiveUp, stack
    <3>2. CASE Join(i) /\ admission' = admission
      <4>1. ~Logged(Ticket(i), "JOIN")
        <5>1. admission.buffer[Ticket(i)] \in Seq(TicketEvents) /\ Ticket(i) \in Tickets
              /\ admission \in AdmissionType /\ "JOIN" \in TicketEvents
          BY <3>2, RunsFacts, RunIsRun, LogTypes
             DEF Join, IInv, ServiceOK, DriverOK, TicketEvents
        <5>2. PICK b : b = admission.buffer[Ticket(i)]
          OBVIOUS
        <5>3. Append(b, "JOIN") # b
          BY <5>1, <5>2, AppendProperties
        <5>4. Logged(Ticket(i), "JOIN") => admission'.buffer[Ticket(i)] = Append(b, "JOIN")
          BY <5>1, <5>2 DEF Logged, AdmissionType
        <5> QED BY <3>2, <5>2, <5>3, <5>4
      <4> QED BY <3>2, <4>1 DEF Join
    <3> QED BY <1>3, <3>1, <3>2
  <2>2. \A j \in Clients : /\ session'[j] = "fetching" => session[j] = "fetching"
                           /\ session[j] = "COMPLETED" => session'[j] = "COMPLETED"
    BY <2>1 DEF IInv, CrowdOK
  <2> QED BY <2>1, <2>2 DEF Quiet, Run
<1>4. CASE Serve
  <2>1. admission'.run = admission.run /\ admission'.buffer = admission.buffer
    BY <1>4 DEF Serve, IInv, ServiceOK, AdmissionType
  <2> QED BY <1>4, <2>1 DEF Serve, Quiet, crowd, Run
<1>5. CASE UNCHANGED vars
  BY <1>5 DEF vars, stack, crowd, Quiet, Run
<1> QED BY <1>1, <1>2, <1>3, <1>4, <1>5


\* A line is stored: what changes in the files, and in the buffer.
FilesWith(r, t, m, line) == [files EXCEPT ![r].modes = m, ![r].tickets[t] = line]
AdmissionWith(t, rest) == [admission EXCEPT !.buffer[t] = rest]

LEMMA FileAfterLine ==
    ASSUME files \in [RunIds -> Log], NEW r \in RunIds, NEW t \in Tickets, NEW m, NEW line
    PROVE  /\ FilesWith(r, t, m, line)[r].modes = m
           /\ \A q \in RunIds : q # r => FilesWith(r, t, m, line)[q] = files[q]
           /\ \A v \in Tickets : FilesWith(r, t, m, line)[r].tickets[v]
                                   = IF v = t THEN line ELSE files[r].tickets[v]
  BY DEF Log, FilesWith

LEMMA BufferAfterLine ==
    ASSUME admission \in AdmissionType, NEW t \in Tickets, NEW rest
    PROVE  /\ AdmissionWith(t, rest).run = admission.run
           /\ \A v \in Tickets : AdmissionWith(t, rest).buffer[v]
                                   = IF v = t THEN rest ELSE admission.buffer[v]
  BY DEF AdmissionType, AdmissionWith

LEMMA StoreIsStoring ==
    ASSUME Assumptions, IInv, StoreControl \/ \E t \in Tickets : StoreLine(t)
    PROVE  Storing
<1>1. CASE StoreControl
  <2>1. PICK r, m : r \in RunIds /\ r = admission.run /\ m = files[r].modes \cup {admission.mode}
    BY <1>1 DEF StoreControl, IInv, ServiceOK, AdmissionType
  <2>2. files \in [RunIds -> Log] /\ files' = [files EXCEPT ![r].modes = m]
    BY <1>1, <2>1 DEF StoreControl, IInv, ServiceOK
  <2>3. \A q \in RunIds : files'[q].tickets = files[q].tickets /\ files[q].modes \subseteq files'[q].modes
    BY <2>1, <2>2 DEF Log
  <2>4. \A q \in RunIds, t \in Tickets : Trace(q, t)' = Trace(q, t)
    BY <1>1, <2>3 DEF StoreControl, Trace
  <2> QED BY <1>1, <2>3, <2>4 DEF StoreControl, Storing, crowd
<1>2. ASSUME NEW t \in Tickets, StoreLine(t)
      PROVE  Storing
  <2>1. PICK r, m, f, b :
            /\ r \in RunIds /\ r = admission.run /\ m = files[r].modes \cup {admission.mode}
            /\ f = files[r].tickets[t] /\ b = admission.buffer[t]
    BY <1>2 DEF StoreLine, IInv, ServiceOK, AdmissionType
  <2>2. /\ files \in [RunIds -> Log] /\ admission \in AdmissionType
        /\ f \in Seq(TicketEvents) /\ b \in Seq(TicketEvents) /\ b # << >>
        /\ files' = FilesWith(r, t, m, Append(f, Head(b)))
        /\ admission' = AdmissionWith(t, Tail(b))
    <3>1. files \in [RunIds -> Log] /\ admission \in AdmissionType
      BY DEF IInv, ServiceOK
    <3>2. files' = FilesWith(r, t, m, Append(f, Head(b)))
      BY <1>2, <2>1, <3>1 DEF StoreLine, FilesWith, Log
    <3>3. admission' = AdmissionWith(t, Tail(b)) /\ b # << >>
      BY <1>2, <2>1 DEF StoreLine, AdmissionWith
    <3> QED BY <2>1, <3>1, <3>2, <3>3, LogTypes
  <2>3. PICK g, u : g = Append(f, Head(b)) /\ u = Tail(b)
    OBVIOUS
  <2>4. /\ g \o u = f \o b
        /\ \A e : Has(f, e) => Has(g, e)
    <3>1. Head(b) \in TicketEvents
      BY <2>2, HeadTailProperties
    <3> QED BY <2>2, <2>3, <3>1, StoredLine, TraceGrows
  <2>5. files' = FilesWith(r, t, m, g) /\ admission' = AdmissionWith(t, u)
    BY <2>2, <2>3
  <2>6. /\ \A q \in RunIds : files[q].modes \subseteq files'[q].modes
        /\ \A q \in RunIds, v \in Tickets :
              files'[q].tickets[v] = IF q = r /\ v = t THEN g ELSE files[q].tickets[v]
    <3>1. /\ files'[r].modes = m
          /\ \A q \in RunIds : q # r => files'[q] = files[q]
          /\ \A v \in Tickets : files'[r].tickets[v] = IF v = t THEN g ELSE files[r].tickets[v]
      <4>1. r \in RunIds
        BY <2>1
      <4> QED BY <2>2, <2>5, <4>1, FileAfterLine
    <3> QED BY <2>1, <3>1
  <2>7. /\ admission'.run = r
        /\ \A v \in Tickets : admission'.buffer[v] = IF v = t THEN u ELSE admission.buffer[v]
    BY <2>1, <2>2, <2>5, BufferAfterLine
  <2>8. ASSUME NEW q \in RunIds, NEW v \in Tickets
        PROVE  /\ Trace(q, v)' = Trace(q, v)
               /\ \A e : Has(files[q].tickets[v], e) => Has(files'[q].tickets[v], e)
    <3>1. CASE q = r /\ v = t
      <4>1. (Trace(q, v))' = g \o u
        BY <2>6, <2>7, <3>1 DEF Trace
      <4>2. Trace(q, v) = f \o b
        BY <2>1, <3>1 DEF Trace
      <4> QED BY <2>1, <2>4, <2>6, <3>1, <4>1, <4>2
    <3>2. CASE q # r \/ v # t
      <4>1. /\ files'[q].tickets[v] = files[q].tickets[v]
            /\ q = r => admission'.buffer[v] = admission.buffer[v]
        BY <2>6, <2>7, <3>2
      <4> QED BY <2>1, <2>7, <4>1 DEF Trace
    <3> QED BY <3>1, <3>2
  <2> QED BY <1>2, <2>1, <2>6, <2>7, <2>8 DEF StoreLine, Storing, crowd
<1> QED BY <1>1, <1>2

\* A client of the load that is driven is one of the load of its run.
LEMMA ClientIsOfLoad ==
    ASSUME Assumptions, IInv, LogInv, NEW i \in Clients, Runs(i)
    PROVE  /\ driver.pc = "load" /\ admission.run = Run /\ Run \in RunIds
           /\ Ticket(i) \in Tickets /\ Ticket(i)[1] <= driver.launch
           /\ DrivenBy(admission.run, Ticket(i))
           /\ \A j \in Clients : Ticket(j) = Ticket(i) => j = i
<1>1. /\ driver.pc = "load" /\ admission.run = Run /\ Run \in RunIds
      /\ Ticket(i) \in Tickets /\ Ticket(i)[1] = driver.launch /\ driver.launch \in Nat
  BY RunsFacts DEF IInv, DriverOK, DriverType, Assumptions, LoadAssumption
<1>2. populations[Run.seed] # 0
  BY <1>1 DEF IInv, PopulationOK, DriverOK, DriverType, Assumptions, LoadAssumption
<1>3. drove[driver.launch] = populations[Run.seed]
  BY <1>1 DEF LogInv, OwnLoad
<1>4. \A j \in Clients : Ticket(j) = Ticket(i) => j = i
  BY DEF Ticket
<1> QED BY <1>1, <1>2, <1>3, <1>4 DEF DrivenBy

\* The service logs what the clients tell it.
LEMMA ClientIsLogged ==
    ASSUME Assumptions, IInv, LogInv, NEW i \in Clients
    PROVE  /\ Complete(i) => Logging(Ticket(i), "COMPLETE")
           /\ FetchFails(i) => Logging(Ticket(i), "TIMEOUT")
           /\ Join(i) /\ admission' # admission => Logging(Ticket(i), "JOIN")
<1> DEFINE t == Ticket(i)
<1>0. {"COMPLETE", "TIMEOUT", "JOIN"} \subseteq TicketEvents
  BY DEF TicketEvents
<1>1. session \in [Clients -> {"scheduled", "polling", "fetching"} \cup Outcomes]
  BY DEF IInv, CrowdOK
<1>2. ASSUME Runs(i), NEW s \in States, tickets' = [tickets EXCEPT ![admission.run][t] = s]
      PROVE  /\ \A r \in RunIds, u \in Tickets :
                    r # admission.run \/ u # t => tickets'[r][u] = tickets[r][u]
             /\ tickets'[admission.run][t] = s
  <2>1. admission.run \in RunIds /\ t \in Tickets /\ tickets \in TicketsType
    BY <1>2, ClientIsOfLoad DEF IInv, ServiceOK
  <2>2. TicketsAre(admission.run, t, s)
    BY <1>2, <2>1, TicketFacts
  <2> QED BY <2>1, <2>2 DEF TicketsAre
<1>3. ASSUME Complete(i)
      PROVE  Logging(t, "COMPLETE")
  <2>1. /\ Runs(i) /\ session[i] = "fetching" /\ Logged(t, "COMPLETE")
        /\ UNCHANGED <<driver, populations, handling, files, drove, records>>
        /\ session' = [session EXCEPT ![i] = "COMPLETED"]
        /\ tickets' = [tickets EXCEPT ![admission.run][t] = "COMPLETED"]
    BY <1>3 DEF Complete
  <2>2. Has(Trace(admission.run, t), "ADMIT")
    BY <2>1, ClientIsOfLoad DEF LogInv, SessionsOK
  <2>3. \A j \in Clients : session'[j] = IF j = i THEN "COMPLETED" ELSE session[j]
    BY <1>1, <2>1
  <2>4. /\ \A r \in RunIds, u \in Tickets :
               r # admission.run \/ u # t => tickets'[r][u] = tickets[r][u]
        /\ tickets'[admission.run][t] = "COMPLETED"
    BY <1>2, <2>1 DEF States
  <2> HIDE DEF t
  <2> QED BY <1>0, <2>1, <2>2, <2>3, <2>4, ClientIsOfLoad DEF Logging, t
<1>4. ASSUME FetchFails(i)
      PROVE  Logging(t, "TIMEOUT")
  <2>1. /\ Runs(i) /\ session[i] = "fetching" /\ Logged(t, "TIMEOUT")
        /\ UNCHANGED <<driver, populations, tickets, files, drove, records>>
        /\ handling' = handling \cup {t}
        /\ session' = [session EXCEPT ![i] = "polling"]
    BY <1>4 DEF FetchFails, TimedOut
  <2>2. \A j \in Clients : session'[j] = IF j = i THEN "polling" ELSE session[j]
    BY <1>1, <2>1
  <2> HIDE DEF t
  <2> QED BY <1>0, <2>1, <2>2, ClientIsOfLoad DEF Logging, t
<1>5. ASSUME Join(i), admission' # admission
      PROVE  Logging(t, "JOIN")
  <2>1. /\ Runs(i) /\ session[i] = "scheduled" /\ Logged(t, "JOIN")
        /\ UNCHANGED <<driver, populations, handling, files, drove, records>>
        /\ session' = [session EXCEPT ![i] = "polling"]
        /\ tickets' = [tickets EXCEPT ![admission.run][t] = "WAITING"]
    BY <1>5 DEF Join
  <2>2. \A j \in Clients : session'[j] = IF j = i THEN "polling" ELSE session[j]
    BY <1>1, <2>1
  <2>3. /\ \A r \in RunIds, u \in Tickets :
               r # admission.run \/ u # t => tickets'[r][u] = tickets[r][u]
        /\ tickets'[admission.run][t] = "WAITING"
    BY <1>2, <2>1 DEF States
  <2> HIDE DEF t
  <2> QED BY <1>0, <2>1, <2>2, <2>3, ClientIsOfLoad DEF Logging, t
<1> QED BY <1>3, <1>4, <1>5

\* A ticket that the service knows is of a load that has been launched.
LEMMA KnownTicket ==
    ASSUME Assumptions, IInv, LogInv, NEW t \in Tickets, admission.run \in RunIds,
           t \in handling \/ tickets[admission.run][t] # "NONE"
    PROVE  t[1] <= driver.launch /\ DrivenBy(admission.run, t)
<1>1. t[1] \in Nat /\ driver.launch \in Nat
  BY TicketParts DEF IInv, DriverOK, DriverType, Assumptions, LoadAssumption
<1>2. ~(t[1] > driver.launch)
  BY DEF LogInv, NotYet
<1>3. DrivenBy(admission.run, t)
  BY DEF LogInv, OwnLoad
<1> QED BY <1>1, <1>2, <1>3

\* The service logs what it does of its own accord.
LEMMA ServiceIsLogged ==
    ASSUME Assumptions, IInv, LogInv, NEW t \in Tickets
    PROVE  /\ Admit(t) => Logging(t, "ADMIT")
           /\ Expire(t) => Logging(t, "TIMEOUT")
           /\ Requeue(t) => Logging(t, "REQUEUE")
<1>0. {"ADMIT", "TIMEOUT", "REQUEUE"} \subseteq TicketEvents
  BY DEF TicketEvents
<1>1. ASSUME admission.run # NoRun
      PROVE  admission.run \in RunIds
  BY <1>1 DEF IInv, ServiceOK, AdmissionType
<1>2. ASSUME NEW s \in States, admission.run \in RunIds,
             tickets' = [tickets EXCEPT ![admission.run][t] = s]
      PROVE  /\ \A r \in RunIds, u \in Tickets :
                    r # admission.run \/ u # t => tickets'[r][u] = tickets[r][u]
             /\ tickets'[admission.run][t] = s
  <2>1. TicketsAre(admission.run, t, s)
    BY <1>2, TicketFacts DEF IInv, ServiceOK
  <2> QED BY <1>2, <2>1 DEF TicketsAre
<1>3. ASSUME Admit(t) PROVE Logging(t, "ADMIT")
  <2>1. /\ admission.run \in RunIds /\ tickets[admission.run][t] = "WAITING"
        /\ tickets' = [tickets EXCEPT ![admission.run][t] = "ADMITTED"] /\ Logged(t, "ADMIT")
        /\ UNCHANGED <<driver, populations, handling, files, session, drove, records>>
    BY <1>1, <1>3 DEF Admit, crowd
  <2>2. \A r \in RunIds, u \in Tickets :
            r # admission.run \/ u # t => tickets'[r][u] = tickets[r][u]
    BY <1>2, <2>1 DEF States
  <2> QED BY <1>0, <2>1, <2>2, KnownTicket DEF Logging
<1>4. ASSUME Expire(t) PROVE Logging(t, "TIMEOUT")
  <2>1. /\ admission.run \in RunIds /\ tickets[admission.run][t] = "ADMITTED"
        /\ Logged(t, "TIMEOUT") /\ handling' = handling \cup {t}
        /\ UNCHANGED <<driver, populations, tickets, files, session, drove, records>>
    BY <1>1, <1>4 DEF Expire, TimedOut, crowd
  <2> QED BY <1>0, <2>1, KnownTicket DEF Logging
<1>5. ASSUME Requeue(t) PROVE Logging(t, "REQUEUE")
  <2>1. PICK s \in {"GHOST", "WAITING"} : tickets' = [tickets EXCEPT ![admission.run][t] = s]
    BY <1>5 DEF Requeue
  <2>2. /\ admission.run \in RunIds /\ t \in handling
        /\ Logged(t, "REQUEUE") /\ handling' = handling \ {t}
        /\ UNCHANGED <<driver, populations, files, session, drove, records>>
    BY <1>1, <1>5 DEF Requeue, crowd, IInv, ModeOK
  <2>3. /\ \A r \in RunIds, u \in Tickets :
               r # admission.run \/ u # t => tickets'[r][u] = tickets[r][u]
        /\ tickets'[admission.run][t] = s
    BY <1>2, <2>1, <2>2 DEF States
  <2> QED BY <1>0, <2>2, <2>3, KnownTicket DEF Logging
<1> QED BY <1>3, <1>4, <1>5


LEMMA NextKeepsLogInv ==
    ASSUME Assumptions, IInv, LogInv, [Next]_vars
    PROVE  LogInv'
<1>1. CASE Start \/ Drive
  <2>1. driver'.pc = "launch" \/ driver'.pc # "launch"
    OBVIOUS
  <2> QED BY <1>1, <2>1, DriverIsQuiet, QuietKeepsLogInv, PopulationKeepsLogInv, RecreateKeepsLogInv,
             FlushKeepsLogInv, LaunchKeepsLogInv, ReadKeepsLogInv DEF Drive, Prepare
<1>2. CASE \E c \in AccessClass : Generator(c)
  BY <1>2, CrowdIsQuiet, QuietKeepsLogInv
<1>3. ASSUME NEW i \in Clients, Client(i)
      PROVE  LogInv'
  <2>1. CASE Fetch(i) \/ Unreported(i) \/ GiveUp(i)
    <3>1. Quiet
      BY <2>1, CrowdIsQuiet
    <3> QED BY <3>1, QuietKeepsLogInv
  <2>2. CASE Complete(i)
    BY <2>2, ClientIsLogged, LoggingKeepsLogInv
  <2>3. CASE FetchFails(i)
    BY <2>3, ClientIsLogged, LoggingKeepsLogInv
  <2>4. CASE Join(i) /\ admission' # admission
    BY <2>4, ClientIsLogged, LoggingKeepsLogInv
  <2>5. CASE Join(i) /\ admission' = admission
    <3>1. Quiet
      BY <2>5, CrowdIsQuiet
    <3> QED BY <3>1, QuietKeepsLogInv
  <2> QED BY <1>3, <2>1, <2>2, <2>3, <2>4, <2>5 DEF Client
<1>4. CASE Serve
  <2>1. Quiet
    BY <1>4, CrowdIsQuiet
  <2> QED BY <2>1, QuietKeepsLogInv
<1>5. CASE StoreControl \/ \E t \in Tickets : StoreLine(t)
  BY <1>5, StoreIsStoring, StoringKeepsLogInv
<1>6. ASSUME NEW t \in Tickets, Admit(t) \/ Expire(t) \/ Requeue(t)
      PROVE  LogInv'
  BY <1>6, ServiceIsLogged, LoggingKeepsLogInv
<1>7. CASE UNCHANGED vars
  <2>1. Quiet
    BY <1>7, CrowdIsQuiet
  <2> QED BY <2>1, QuietKeepsLogInv
<1> QED BY <1>1, <1>2, <1>3, <1>4, <1>5, <1>6, <1>7 DEF Next, Service

LEMMA LogInvHolds == Spec => [](IInv /\ LogInv)
<1>1. Init => IInv /\ LogInv
  BY Assumed, InitInv, LogInvInit
<1>2. (IInv /\ LogInv) /\ [Next]_vars => (IInv /\ LogInv)'
  BY Assumed, NextKeepsInv, NextKeepsLogInv
<1> QED BY <1>1, <1>2, PTL DEF Spec
-----------------------------------------------------------------------------
(* What a result is worth *)

\* All that a record counts, and all that load_matrix would count of a log it
\* finds, was driven by the population that the record or the log is of: a
\* population is never generated anew, and no log gets lines of another seed.
THEOREM ResultsAreOfTheirLoad == Spec => []SameLoad
<1>1. ASSUME IInv, LogInv
      PROVE  SameLoad
  <2>1. ASSUME NEW r \in RunIds, NEW t \in Tickets, Has(files[r].tickets[t], "JOIN")
        PROVE  drove[t[1]] = populations[r.seed]
    <3>1. /\ files[r].tickets[t] \in Seq(TicketEvents) /\ admission.buffer[t] \in Seq(TicketEvents)
          /\ files[r].tickets[t] # << >>
      BY <1>1, <2>1, LogTypes, EmptyTrace
    <3>2. PICK f, b : f = files[r].tickets[t] /\ b = admission.buffer[t]
      OBVIOUS
    <3>3. f \o b # << >>
      BY <3>1, <3>2, FileIsPrefix
    <3>4. Trace(r, t) # << >>
      BY <3>1, <3>2, <3>3 DEF Trace
    <3> QED BY <1>1, <3>4 DEF LogInv, OwnLoad, DrivenBy
  <2>2. ASSUME NEW k \in DOMAIN records, NEW t \in records[k].joined
        PROVE  drove[t[1]] = records[k].n
    <3>1. records[k].run \in RunIds /\ t \in Tickets
      BY <1>1, <2>2, RecordParts DEF IInv
    <3>2. Has(files[records[k].run].tickets[t], "JOIN") /\ records[k].n = populations[records[k].run.seed]
      BY <1>1, <2>2 DEF LogInv, RecordsUpheld, Upheld
    <3> QED BY <2>1, <3>1, <3>2
  <2>3. ASSUME NEW r \in RunIds, NEW t \in load_record(r).joined
        PROVE  drove[t[1]] = load_record(r).n
    <3>1. files[r] \in Log
      BY <1>1 DEF IInv, ServiceOK
    <3>2. t \in Tickets /\ Has(files[r].tickets[t], "JOIN") /\ load_record(r).n = populations[r.seed]
      BY <2>3, <3>1, RecordSays DEF load_record
    <3> QED BY <2>1, <3>2
  <2> QED BY <2>2, <2>3 DEF SameLoad
<1>2. IInv /\ LogInv => SameLoad
  BY <1>1
<1> QED BY <1>2, LogInvHolds, PTL

\* Whoever reads the logs again finds every completion that was counted: no file
\* loses a line, and none gets the lines of a second mode.
THEOREM RereadingLosesNothing == Spec => []RereadSeesMore
<1>1. ASSUME IInv, LogInv, NEW k \in DOMAIN records
      PROVE  /\ is_there(records[k].run)
             /\ records[k].completed \subseteq load_record(records[k].run).completed
  <2>1. PICK d : d = records[k]
    OBVIOUS
  <2>2. d.run \in RunIds /\ d.completed \subseteq Tickets
    BY <1>1, <2>1, RecordParts DEF IInv
  <2>3. Upheld(d)
    BY <1>1, <2>1 DEF LogInv, RecordsUpheld
  <2>4. files[d.run] \in Log /\ files[d.run].modes = {d.run.mode}
    BY <1>1, <2>2, <2>3 DEF IInv, ServiceOK, OneModePerLog, Upheld
  <2>5. is_single_mode(files[d.run])
    BY <2>4, FS_Singleton DEF is_single_mode
  <2>6. is_there(d.run)
    BY <2>3, <2>5 DEF is_there, Upheld
  <2>7. d.completed \subseteq load_record(d.run).completed
    BY <2>2, <2>3, <2>4, RecordSays DEF load_record, Upheld
  <2> QED BY <2>1, <2>6, <2>7
<1>2. IInv /\ LogInv => RereadSeesMore
  BY <1>1 DEF RereadSeesMore
<1> QED BY <1>2, LogInvHolds, PTL

\* A new record's completers: what the log says of them.
LEMMA NewCompleters ==
    ASSUME Assumptions, IInv, LogInv, driver.pc = "read", NEW d, d = RecordOf(Run, files[Run]),
           NEW t \in d.completed
    PROVE  /\ t[1] = driver.launch => session[t[2]] = "COMPLETED"
           /\ d.attempts[t] >= 1
<1>1. PICK r \in RunIds : r = Run
  BY RunIsRun DEF IInv, DriverOK
<1>2. files[r] \in Log /\ admission.run = r
  BY <1>1 DEF IInv, ServiceOK, ModeOK
<1>3. /\ t \in Tickets /\ Has(files[r].tickets[t], "COMPLETE")
      /\ d.attempts[t] = Times(files[r].tickets[t], "ADMIT")
  BY <1>1, <1>2, RecordSays
<1>4. PICK f \in Seq(TicketEvents), b \in Seq(TicketEvents) :
         f = files[r].tickets[t] /\ b = admission.buffer[t]
  BY <1>3, LogTypes
<1>5. Trace(r, t) = f \o b
  BY <1>2, <1>4 DEF Trace
<1>6. Has(Trace(r, t), "COMPLETE") /\ AdmittedFirst(f)
  <2>1. AdmittedFirst(f \o b)
    BY <1>3, <1>5 DEF LogInv, InOrder
  <2>2. Has(f \o b, "COMPLETE")
    BY <1>3, <1>4, FileIsPrefix
  <2> QED BY <1>5, <2>1, <2>2, FileIsPrefix
<1>7. t[1] = driver.launch => session[t[2]] = "COMPLETED"
  <2>1. ASSUME t[1] = driver.launch
        PROVE  session[t[2]] = "COMPLETED"
    <3>1. t[2] \in Clients /\ Ticket(t[2]) = t
      BY <1>3, <2>1, TicketParts DEF Ticket
    <3> QED BY <1>1, <1>6, <3>1 DEF LogInv, SessionsOK
  <2> QED BY <2>1
<1>8. Times(f, "ADMIT") >= 1
  <2>1. Has(f, "ADMIT")
    BY <1>3, <1>4, <1>6 DEF AdmittedFirst, Has
  <2>2. Times(f, "ADMIT") \in Nat /\ Times(f, "ADMIT") > 0
    BY <2>1, TimesIsHas
  <2> QED BY <2>2
<1> QED BY <1>3, <1>4, <1>7, <1>8

\* When a record is taken, those of its completers that are of this attempt saw
\* their transfer accepted, and every completer has an admission in the log.
THEOREM CountedCompletersCompleted == Spec => CompletersDidComplete
<1> DEFINE Counts == \A i \in DOMAIN records' : i \notin DOMAIN records =>
                        \A t \in records'[i].completed :
                            /\ t[1] = driver.launch => session[t[2]] = "COMPLETED"
                            /\ records'[i].attempts[t] >= 1
<1>1. ASSUME IInv, LogInv, [Next]_vars, NEW i \in DOMAIN records', i \notin DOMAIN records
      PROVE  /\ driver.pc = "read" /\ records'[i] = RecordOf(Run, files[Run])
  <2>1. \/ records' = records \/ records' = << >>
        \/ driver.pc = "read" /\ is_single_mode(files[Run])
           /\ records' = Append(records, RecordOf(Run, files[Run]))
    <3>1. CASE Start \/ Drive
      BY <3>1 DEF Start, Drive, Prepare, ensure_population, WriteConfig, RecreateServices, UpFails,
         wait_for_admission, FlushAll, Launch, AwaitGenerator, LoadFails, Read, Goto, Fail
    <3>2. CASE \E c \in AccessClass : Generator(c)
      BY <3>2 DEF Generator, GeneratorEnds, GeneratorFails
    <3>3. CASE \E j \in Clients : Client(j)
      BY <3>3 DEF Client, Join, Fetch, Complete, Unreported, FetchFails, GiveUp
    <3>4. CASE Service
      BY <3>4 DEF Service, Serve, StoreControl, Admit, Expire, Requeue, StoreLine
    <3>5. CASE UNCHANGED vars
      BY <3>5 DEF vars
    <3> QED BY <1>1, <3>1, <3>2, <3>3, <3>4, <3>5 DEF Next
  <2>2. records' # records /\ records' # << >>
    BY <1>1
  <2>3. PICK d \in RunRecord : d = RecordOf(Run, files[Run])
    <3>1. driver.pc = "read" /\ Run \in RunIds
      BY <1>1, <2>1, <2>2, RunIsRun DEF IInv, DriverOK
    <3>2. files[Run] \in Log /\ populations[Run.seed] \in LoadSizes
      BY <1>1, <3>1 DEF IInv, DriverOK, DriverType, ServiceOK, PopulationOK
    <3> QED BY <3>1, <3>2, RecordType
  <2>4. records \in Seq(RunRecord) /\ driver.pc = "read" /\ records' = Append(records, d)
    BY <1>1, <2>1, <2>2, <2>3 DEF IInv, RecordsOK
  <2>5. i = Len(records) + 1 /\ records'[i] = d
    BY <1>1, <2>4, AppendProperties, LenProperties
  <2> QED BY <2>3, <2>4, <2>5
<1>2. IInv /\ LogInv /\ [Next]_vars => Counts
  BY <1>1, Assumed, NewCompleters
<1> HIDE DEF Counts
<1>3. IInv /\ LogInv /\ [Next]_vars => [Counts]_vars
  BY <1>2
<1>4. Spec => [][Counts]_vars
  BY <1>3, LogInvHolds, PTL DEF Spec
<1> QED BY <1>4 DEF CompletersDidComplete, Counts
-----------------------------------------------------------------------------
(* The population *)

LEMMA PairCardinality ==
    ASSUME NEW d, NEW e, d # e, NEW S \in SUBSET {d, e}
    PROVE  Cardinality(S) = (IF d \in S THEN 1 ELSE 0) + (IF e \in S THEN 1 ELSE 0)
<1>1. CASE S = {}
  BY <1>1, FS_EmptySet
<1>2. CASE S = {d}
  <2>1. Cardinality({d}) = 1
    BY FS_Singleton
  <2> QED BY <1>2, <2>1
<1>3. CASE S = {e}
  <2>1. Cardinality({e}) = 1
    BY FS_Singleton
  <2> QED BY <1>3, <2>1
<1>4. CASE S = {d, e}
  <2>1. IsFiniteSet({d}) /\ Cardinality({d}) = 1
    BY FS_Singleton
  <2>2. Cardinality({d} \cup {e}) = 2
    BY <2>1, FS_AddElement
  <2>3. S = {d} \cup {e}
    BY <1>4
  <2> QED BY <1>4, <2>2, <2>3
<1> QED BY <1>1, <1>2, <1>3, <1>4

\* 1 if d comes before c, else 0.
Earlier(n, d, c) == IF Before(n, d, c) THEN 1 ELSE 0

LEMMA RankIsSum ==
    ASSUME NEW n, NEW c, NEW d, NEW e, AccessClass = {c, d, e}, c # d, c # e, d # e,
           ~Before(n, c, c)
    PROVE  rank(n, c) = Earlier(n, d, c) + Earlier(n, e, c)
<1> DEFINE S == {x \in AccessClass : Before(n, x, c)}
<1>1. S \in SUBSET {d, e} /\ (d \in S <=> Before(n, d, c)) /\ (e \in S <=> Before(n, e, c))
  OBVIOUS
<1>2. Cardinality(S) = (IF d \in S THEN 1 ELSE 0) + (IF e \in S THEN 1 ELSE 0)
  BY <1>1, PairCardinality
<1> QED BY <1>1, <1>2 DEF rank, Earlier

LEMMA Remainder ==
    ASSUME NEW a \in Nat
    PROVE  a \div 100 \in Nat /\ a % 100 \in 0 .. 99 /\ a % 100 = a - 100 * (a \div 100)
<1>1. a \div 100 \in Nat
  BY Z3
<1>2. a % 100 \in 0 .. 99
  BY Z3
<1>3. a % 100 = a - 100 * (a \div 100)
  BY Z3
<1> QED BY <1>1, <1>2, <1>3

\* Largest remainder gives every client a class, whatever the mix: a population of
\* n has n clients.
THEOREM SharesAddUp ==
    ASSUME MixAssumption, NEW n \in Nat
    PROVE  Total(apportion(n)) = n
<1>1. HIGH = 0 /\ MEDIUM = 1 /\ LOW = 2 /\ AccessClass = {0, 1, 2}
  BY DEF HIGH, MEDIUM, LOW, AccessClass
<1>2. PICK x \in Nat, y \in Nat, z \in Nat : x = raw(n)[0] /\ y = raw(n)[1] /\ z = raw(n)[2]
  BY <1>1 DEF raw, MixAssumption
<1>3. x + y + z = 100 * n
  <2>1. PICK h \in Nat, m \in Nat, l \in Nat : h = class_mix[0] /\ m = class_mix[1] /\ l = class_mix[2]
    BY <1>1 DEF MixAssumption
  <2>2. h + m + l = 100
    BY <1>1, <2>1 DEF MixAssumption
  <2>3. x = n * h /\ y = n * m /\ z = n * l
    BY <1>1, <1>2, <2>1 DEF raw
  <2>4. n * h + n * m + n * l = n * (h + m + l)
    BY Z3
  <2> QED BY <2>2, <2>3, <2>4
<1>4. PICK qx, qy, qz, rx, ry, rz :
         /\ qx = x \div 100 /\ qy = y \div 100 /\ qz = z \div 100
         /\ rx = x % 100 /\ ry = y % 100 /\ rz = z % 100
  OBVIOUS
<1>5. /\ qx \in Nat /\ qy \in Nat /\ qz \in Nat
      /\ rx \in 0 .. 99 /\ ry \in 0 .. 99 /\ rz \in 0 .. 99
      /\ x = 100 * qx + rx /\ y = 100 * qy + ry /\ z = 100 * qz + rz
  <2>1. qx \in Nat /\ rx \in 0 .. 99 /\ rx = x - 100 * qx
    BY <1>4, Remainder
  <2>2. qy \in Nat /\ ry \in 0 .. 99 /\ ry = y - 100 * qy
    BY <1>4, Remainder
  <2>3. qz \in Nat /\ rz \in 0 .. 99 /\ rz = z - 100 * qz
    BY <1>4, Remainder
  <2> QED BY <2>1, <2>2, <2>3
<1>6. PICK s : s = shortfall(n)
  OBVIOUS
<1>7. truncated(n)[0] = qx /\ truncated(n)[1] = qy /\ truncated(n)[2] = qz
  BY <1>1, <1>2, <1>4, <1>5 DEF truncated
<1>8. s = n - (qx + qy + qz)
  BY <1>1, <1>5, <1>6, <1>7 DEF shortfall, Total
<1>9. 100 * s = rx + ry + rz /\ s \in {0, 1, 2}
  BY <1>3, <1>5, <1>8
<1>10. /\ \A c \in {0, 1, 2} : ~Before(n, c, c)
       /\ Before(n, 0, 1) <=> rx >= ry
       /\ Before(n, 1, 0) <=> ry > rx
       /\ Before(n, 0, 2) <=> rx >= rz
       /\ Before(n, 2, 0) <=> rz > rx
       /\ Before(n, 1, 2) <=> ry >= rz
       /\ Before(n, 2, 1) <=> rz > ry
  <2>1. raw(n)[0] % 100 = rx /\ raw(n)[1] % 100 = ry /\ raw(n)[2] % 100 = rz
    BY <1>2, <1>4
  <2>2. rx \in Int /\ ry \in Int /\ rz \in Int
    BY <1>5
  <2>3. \A c, d \in {0, 1, 2} : Before(n, d, c) <=>
           \/ raw(n)[d] % 100 > raw(n)[c] % 100
           \/ raw(n)[d] % 100 = raw(n)[c] % 100 /\ d < c
    BY DEF Before
  <2>4. \A c \in {0, 1, 2} : ~Before(n, c, c)
    BY <2>1, <2>2, <2>3
  <2>5. /\ Before(n, 0, 1) <=> rx >= ry
        /\ Before(n, 1, 0) <=> ry > rx
    BY <2>1, <2>2, <2>3
  <2>6. /\ Before(n, 0, 2) <=> rx >= rz
        /\ Before(n, 2, 0) <=> rz > rx
    BY <2>1, <2>2, <2>3
  <2>7. /\ Before(n, 1, 2) <=> ry >= rz
        /\ Before(n, 2, 1) <=> rz > ry
    BY <2>1, <2>2, <2>3
  <2> QED BY <2>4, <2>5, <2>6, <2>7
<1>11. /\ rank(n, 0) = (IF ry > rx THEN 1 ELSE 0) + (IF rz > rx THEN 1 ELSE 0)
       /\ rank(n, 1) = (IF rx >= ry THEN 1 ELSE 0) + (IF rz > ry THEN 1 ELSE 0)
       /\ rank(n, 2) = (IF rx >= rz THEN 1 ELSE 0) + (IF ry >= rz THEN 1 ELSE 0)
  <2>1. rank(n, 0) = Earlier(n, 1, 0) + Earlier(n, 2, 0)
    BY <1>1, <1>10, RankIsSum
  <2>2. rank(n, 1) = Earlier(n, 0, 1) + Earlier(n, 2, 1)
    BY <1>1, <1>10, RankIsSum
  <2>3. rank(n, 2) = Earlier(n, 0, 2) + Earlier(n, 1, 2)
    BY <1>1, <1>10, RankIsSum
  <2> QED BY <1>10, <2>1, <2>2, <2>3 DEF Earlier
<1>12. /\ apportion(n)[0] = qx + (IF rank(n, 0) < s THEN 1 ELSE 0)
       /\ apportion(n)[1] = qy + (IF rank(n, 1) < s THEN 1 ELSE 0)
       /\ apportion(n)[2] = qz + (IF rank(n, 2) < s THEN 1 ELSE 0)
  BY <1>1, <1>5, <1>6, <1>7 DEF apportion
<1>13. apportion(n)[0] + apportion(n)[1] + apportion(n)[2] = n
  BY <1>5, <1>8, <1>9, <1>11, <1>12
<1> QED BY <1>1, <1>13 DEF Total
=============================================================================
