------------------------- MODULE CodemasonRunProofs -------------------------
(***************************************************************************)
(* Theorems about runs and a user in one clone, processes around one       *)
(* catalogue cache, the pipes between a run and the supervisor's thread,   *)
(* files read and written, commands and the requests a conversation is     *)
(* sent in, for any number of each and any sizes.  Each part has an        *)
(* inductive invariant of its own; while a behaviour is about another part *)
(* it stands still in a state that satisfies it.                           *)
(***************************************************************************)
EXTENDS MCCodemasonRun, SequenceTheorems, FiniteSetTheorems, Recursion

----------------------------------------------------------------------------
(* An item's process and the thread that waits for it.                     *)

\* What was written is in a pipe or has been read; the process has a status
\* from its end on, and one of its own only behind its whole report; and the
\* result is made of both.
ItemInv ==
  /\ Item!TypeOK
  /\ logged \in Nat /\ printed \in Nat
  /\ got \in [out : Nat, err : Nat]
  /\ status \in {Item!NoStatus, Item!Signal, Item!Panic} \cup Item!Stops
  /\ process = "ended" <=> status # Item!NoStatus
  /\ status \in Item!Stops => status = intended /\ printed = ReportSize
  /\ \/ result \in {Item!Pending, Item!Spawn, Item!Output}
     \/ result = Item!ReadReport /\ Item!AtEnd

LEMMA ItemInitial == Item!Init => ItemInv
  BY ItemAssumption DEF Item!Init, ItemInv, Item!TypeOK, Item!ProcessAssumption, Item!NoStatus,
     Item!Stops, Item!Signal, Item!Panic, Item!Pending

LEMMA ItemStandsStill == NoItem => ItemInv
  BY ItemAssumption DEF NoItem, ItemInv, Item!TypeOK, Item!ProcessAssumption, Item!NoStatus,
     Item!Stops, Item!Signal, Item!Panic, Item!Spawn

LEMMA ItemStep == ItemInv /\ [Item!Next]_itemVars => ItemInv'
<1> SUFFICES ASSUME ItemInv, [Item!Next]_itemVars PROVE ItemInv'
  OBVIOUS
<1> USE ItemAssumption DEF ItemInv, Item!TypeOK, Item!ProcessAssumption, Item!NoStatus,
     Item!Stops, Item!Signal, Item!Panic, Item!Pending, Item!Spawn, Item!Output, Item!Readable, Item!AtEnd
<1>1. CASE Item!Log
  <2>1. err' = err + 1 /\ logged' = logged + 1 /\ UNCHANGED <<process, calls, intended, printed, status, out, got, result>>
    BY <1>1 DEF Item!Log
  <2>2. got.err \in Nat /\ err \in 0..PipeSize /\ err < PipeSize
    BY <1>1 DEF Item!Log
  <2>3. err' \in 0..PipeSize
    BY <2>1, <2>2
  <2>4. got.err + err' = logged'
    BY <2>1, <2>2
  <2>5. logged' \in Nat /\ logged' <= Diagnostics
    BY <1>1, <2>1 DEF Item!Log
  <2>6. process = "working"
    BY <1>1 DEF Item!Log
  <2> QED
    BY <2>1, <2>3, <2>4, <2>5, <2>6
<1>2. CASE Item!AskModel
  BY <1>2 DEF Item!AskModel
<1>3. CASE Item!ModelAnswers
  BY <1>3 DEF Item!ModelAnswers
<1>4. CASE Item!Stop
  BY <1>4 DEF Item!Stop
<1>5. CASE Item!PrintReport
  <2>1. out' = out + 1 /\ printed' = printed + 1 /\ UNCHANGED <<process, calls, intended, logged, status, err, got, result>>
    BY <1>5 DEF Item!PrintReport
  <2>2. got.out \in Nat /\ out \in 0..PipeSize /\ out < PipeSize
    BY <1>5 DEF Item!PrintReport
  <2>3. out' \in 0..PipeSize
    BY <2>1, <2>2
  <2>4. got.out + out' = printed'
    BY <2>1, <2>2
  <2>5. printed' \in Nat /\ printed' <= ReportSize
    BY <1>5, <2>1 DEF Item!PrintReport
  <2>6. process = "printing" /\ status \notin Item!Stops
    BY <1>5 DEF Item!PrintReport
  <2> QED
    BY <2>1, <2>3, <2>4, <2>5, <2>6
<1>6. CASE Item!Exit
  BY <1>6 DEF Item!Exit
<1>7. CASE Item!Killed
  BY <1>7 DEF Item!Killed, Item!Alive
<1>8. CASE Item!SpawnChild
  BY <1>8 DEF Item!SpawnChild
<1>9. CASE Item!SpawnFails
  BY <1>9 DEF Item!SpawnFails
<1>10. CASE Item!ReadOut
  BY <1>10 DEF Item!ReadOut
<1>11. CASE Item!ReadErr
  BY <1>11 DEF Item!ReadErr
<1>12. CASE Item!Return
  BY <1>12 DEF Item!Return, Item!ReadReport, Item!AtEnd, Item!Report, Item!Unreadable, Item!ExitCode
<1>13. CASE Item!OutputFails
  BY <1>13 DEF Item!OutputFails
<1>14. CASE UNCHANGED itemVars
  BY <1>14 DEF itemVars, Item!ReadReport, Item!AtEnd, Item!ExitCode
<1> QED
  BY <1>1, <1>2, <1>3, <1>4, <1>5, <1>6, <1>7, <1>8, <1>9, <1>10, <1>11, <1>12, <1>13, <1>14
  DEF Item!Next, Item!Process, Item!Thread, Item!Terminated, Item!vars, itemVars

LEMMA ItemBelieved == ItemInv => ReportIsBelieved
  BY ItemAssumption DEF ItemInv, ReportIsBelieved, Item!OnlyAnEndIsAnEnd, Item!NoReportIsLost,
     Item!Verifies, Item!ReadReport, Item!AtEnd, Item!Report, Item!Unreadable, Item!ExitCode,
     Item!Pending, Item!Spawn, Item!Output, Item!Signal, Item!Panic, Item!NoStatus, Item!Stops,
     Item!TypeOK, Item!ProcessAssumption

----------------------------------------------------------------------------
(* The gate and the cache files.                                           *)

Contents == Catalogues \cup {{}}
Files == [is : {"absent", "torn", "whole"}, at : Nat, entries : Contents]
Answers == [how : {"nothing", "cache", "live", "stale"}, entries : Contents, at : Nat]

\* The shape of the variables, which TypeOK leaves open where it says nothing.
GateShape ==
  /\ Gating!TypeOK
  /\ now \in Nat
  /\ file \in [Gating!Keys -> Files]
  /\ DOMAIN at = Processes
  /\ catalogue \in [Processes -> Answers]
  /\ DOMAIN verdict = Processes
  /\ served \subseteq [url : Urls, at : Nat, entries : Catalogues]
  /\ \A s \in served : s.at <= now

\* A whole file holds what was served.
FilesAreServed ==
  \A k \in Gating!Keys : file[k].is = "whole" =>
    \E s \in served : KeyOf[s.url] = k /\ s.entries = file[k].entries /\ s.at = file[k].at

\* What a process is about to write into the file was served to it.
WritesAreServed ==
  \A p \in Processes : at[p] \in {"truncate", "write"} =>
    [url |-> job[p].url, at |-> catalogue[p].at, entries |-> catalogue[p].entries] \in served

GateInv ==
  /\ GateShape /\ FilesAreServed /\ WritesAreServed
  /\ Gating!CatalogueIsGenuine /\ Gating!PassingMeansOffered

LEMMA GateStarts ==
  ASSUME now = 0, live \in [Urls -> Catalogues], job \in [Processes -> Jobs], served = {},
         file = [k \in Gating!Keys |-> Gating!Absent],
         NEW where \in {"read", "done"}, at = [p \in Processes |-> where],
         verdict = [p \in Processes |-> "none"],
         catalogue = [p \in Processes |-> [how |-> "nothing", entries |-> {}, at |-> 0]]
  PROVE  GateInv
<1>1. now \in 0..MaxTime
  BY GatingAssumption DEF Gating!CatalogueAssumption
<1>2. \A k \in Gating!Keys : file[k] = [is |-> "absent", at |-> 0, entries |-> {}]
  BY DEF Gating!Absent
<1>3. GateShape
  <2>1. Gating!TypeOK
    BY <1>1, <1>2 DEF Gating!TypeOK
  <2>2. file \in [Gating!Keys -> Files]
    BY DEF Gating!Absent, Files, Contents
  <2>3. catalogue \in [Processes -> Answers]
    BY DEF Answers, Contents
  <2> QED
    BY <2>1, <2>2, <2>3 DEF GateShape
<1>4. FilesAreServed /\ WritesAreServed
  BY <1>2 DEF FilesAreServed, WritesAreServed
<1>5. Gating!CatalogueIsGenuine /\ Gating!PassingMeansOffered
  BY DEF Gating!CatalogueIsGenuine, Gating!PassingMeansOffered
<1> QED
  BY <1>3, <1>4, <1>5 DEF GateInv

LEMMA GateInitial == Gating!Init => GateInv
  BY GateStarts DEF Gating!Init

LEMMA GateStandsStill == NoGating => GateInv
<1>1. (CHOOSE c \in Catalogues : TRUE) \in Catalogues /\ (CHOOSE j \in Jobs : TRUE) \in Jobs
  BY GatingAssumption DEF Gating!CatalogueAssumption
<1> QED
  BY <1>1, GateStarts DEF NoGating

\* What passes the gate is in the catalogue with tools and a context large enough.
LEMMA CheckIsSound ==
  ASSUME NEW id, NEW allow \in BOOLEAN, NEW entries \in Catalogues,
         Gating!Check(id, allow, entries) = "ok"
  PROVE  \E e \in entries : e.id = id /\ e.tools /\ e.context >= MinContext
<1>1. \A e \in entries : e.context \in Nat /\ MinContext \in Nat
  BY GatingAssumption DEF Gating!CatalogueAssumption
<1>2. \E e \in entries : e.id = id /\ e.tools /\ ~(e.context < MinContext)
  BY DEF Gating!Check
<1> QED
  BY <1>1, <1>2

\* A verdict on a catalogue is sound for what the process was started for.
LEMMA VerdictIsSound ==
  ASSUME NEW task \in Jobs, NEW entries \in Catalogues, Gating!Verdict(task, entries) = "ok"
  PROVE  \A id \in IF task.id = None THEN Allowlist ELSE {task.id} :
           \E e \in entries : e.id = id /\ e.tools /\ e.context >= MinContext
<1>1. CASE task.id = None
  <2>1. \A id \in Allowlist : Gating!Check(id, FALSE, entries) = "ok"
    BY <1>1 DEF Gating!Verdict
  <2> QED
    BY <1>1, <2>1, CheckIsSound
<1>2. CASE task.id # None
  <2>1. Gating!Check(task.id, task.allow, entries) = "ok" /\ task.allow \in BOOLEAN
    BY <1>2, GatingAssumption DEF Gating!Verdict, Gating!CatalogueAssumption
  <2> QED
    BY <1>2, <2>1, CheckIsSound
<1> QED
  BY <1>1, <1>2

\* What a file is answered with is what was served to it.
LEMMA FileAnswers ==
  ASSUME GateInv, NEW p \in Processes, Gating!FileOf(p).is = "whole"
  PROVE  \E s \in served :
           /\ Gating!SameFile(s.url, job[p].url)
           /\ s.entries = Gating!FileOf(p).entries /\ s.at = Gating!FileOf(p).at
<1>1. KeyOf[job[p].url] \in Gating!Keys
  BY GatingAssumption DEF GateInv, GateShape, Gating!TypeOK, Gating!CatalogueAssumption, Gating!Keys
<1> QED
  BY <1>1 DEF GateInv, FilesAreServed, Gating!FileOf, Gating!SameFile

\* Process p gets s, which a provider of its file served, and goes on.
Answered(p, how, s, where) ==
  /\ s \in served' /\ served \subseteq served'
  /\ served' \subseteq [url : Urls, at : Nat, entries : Catalogues]
  /\ \A t \in served' : t.at <= now
  /\ catalogue' = [catalogue EXCEPT ![p] = [how |-> how, at |-> now, entries |-> s.entries]]
  /\ at' = [at EXCEPT ![p] = where] /\ where # "write"
  /\ where = "truncate" => how = "live"
  /\ Gating!SameFile(s.url, job[p].url)
  /\ how # "stale" => now - s.at < Ttl
  /\ how = "live" => s.url = job[p].url /\ s.at = now
  /\ UNCHANGED <<now, live, file, job, verdict>>

LEMMA AnswerKept ==
  ASSUME GateInv, NEW p \in Processes, NEW how \in {"cache", "live", "stale"}, NEW s, NEW where,
         Answered(p, how, s, where)
  PROVE  GateInv'
<1> USE DEF GateInv, GateShape, Answered
<1>1. s.entries \in Catalogues /\ now \in Nat
  BY GatingAssumption
<1>2. catalogue'[p] = [how |-> how, at |-> now, entries |-> s.entries] /\ at'[p] = where
  BY DEF Gating!TypeOK
<1>3. \A q \in Processes \ {p} : catalogue'[q] = catalogue[q] /\ at'[q] = at[q]
  OBVIOUS
<1>4. GateShape'
  <2>1. [how |-> how, at |-> now, entries |-> s.entries] \in Answers
    BY <1>1 DEF Answers, Contents
  <2>2. catalogue' \in [Processes -> Answers]
    BY <2>1
  <2>3. \A q \in Processes :
          /\ catalogue'[q].how \in {"nothing", "cache", "live", "stale"}
          /\ catalogue'[q].entries \in Catalogues \cup {{}}
          /\ at'[q] \in {"truncate", "write"} => catalogue'[q].how = "live"
          /\ at'[q] = "gate" => catalogue'[q].how # "nothing"
    BY <1>1, <1>2, <1>3 DEF Gating!TypeOK
  <2>4. Gating!TypeOK'
    BY <2>3 DEF Gating!TypeOK
  <2> QED
    BY <2>2, <2>4
<1>5. FilesAreServed'
  BY DEF FilesAreServed
<1>6. WritesAreServed'
  <2>1. SUFFICES ASSUME NEW q \in Processes, at'[q] \in {"truncate", "write"}
                 PROVE  [url |-> job[q].url, at |-> catalogue'[q].at, entries |-> catalogue'[q].entries] \in served'
    BY DEF WritesAreServed
  <2>2. CASE q = p
    <3>1. s = [url |-> job[p].url, at |-> now, entries |-> s.entries]
      BY <2>1, <2>2, <1>2
    <3> QED
      BY <3>1, <2>2, <1>2
  <2>3. CASE q # p
    BY <2>1, <2>3, <1>3 DEF WritesAreServed
  <2> QED
    BY <2>2, <2>3
<1>7. Gating!CatalogueIsGenuine'
  <2>1. \A q \in Processes \ {p} : catalogue'[q].how # "nothing" =>
          \E t \in served' :
            /\ Gating!SameFile(t.url, job[q].url) /\ t.entries = catalogue'[q].entries
            /\ catalogue'[q].how # "stale" => catalogue'[q].at - t.at < Ttl
            /\ catalogue'[q].how = "live" => t.url = job[q].url
    BY <1>3 DEF Gating!CatalogueIsGenuine
  <2>2. /\ Gating!SameFile(s.url, job[p].url) /\ s.entries = catalogue'[p].entries
        /\ catalogue'[p].how # "stale" => catalogue'[p].at - s.at < Ttl
        /\ catalogue'[p].how = "live" => s.url = job[p].url
    BY <1>2
  <2> QED
    BY <2>1, <2>2 DEF Gating!CatalogueIsGenuine, Gating!SameFile
<1>8. Gating!PassingMeansOffered'
  BY DEF Gating!PassingMeansOffered, Gating!SameFile
<1> QED
  BY <1>4, <1>5, <1>6, <1>7, <1>8

\* Process p changes nothing but its own file, to nothing or to what was served.
Filed(p, contents, where) ==
  /\ at' = [at EXCEPT ![p] = where]
  /\ where \in {"truncate", "write"} => at[p] \in {"truncate", "write"}
  /\ where = "gate" => catalogue[p].how # "nothing"
  /\ file' \in {file, [file EXCEPT ![KeyOf[job[p].url]] = contents]}
  /\ contents \in Files /\ contents.at <= now
  /\ contents.is = "whole" =>
       \E s \in served : /\ KeyOf[s.url] = KeyOf[job[p].url]
                         /\ s.entries = contents.entries /\ s.at = contents.at
  /\ UNCHANGED <<now, live, job, catalogue, verdict, served>>

LEMMA FileKept ==
  ASSUME GateInv, NEW p \in Processes, NEW contents, NEW where, Filed(p, contents, where)
  PROVE  GateInv'
<1> USE DEF GateInv, GateShape, Filed
<1>1. \A q \in Processes : at'[q] = IF q = p THEN where ELSE at[q]
  OBVIOUS
<1>2. \A k \in Gating!Keys : file'[k] = file[k] \/ (k = KeyOf[job[p].url] /\ file'[k] = contents)
  OBVIOUS
<1>3. now \in Nat /\ contents.at \in Nat
  BY DEF Files
<1>4. GateShape'
  <2>1. \A k \in Gating!Keys :
          /\ file'[k].is \in {"absent", "torn", "whole"}
          /\ file'[k].at \in 0..now /\ file'[k].entries \in Catalogues \cup {{}}
    BY <1>2, <1>3 DEF Gating!TypeOK, Files, Contents
  <2>2. Gating!TypeOK'
    BY <1>1, <2>1 DEF Gating!TypeOK
  <2> QED
    BY <2>2
<1>5. FilesAreServed'
  BY <1>2 DEF FilesAreServed
<1>6. WritesAreServed'
  BY <1>1 DEF WritesAreServed
<1>7. Gating!CatalogueIsGenuine'
  BY DEF Gating!CatalogueIsGenuine, Gating!SameFile
<1>8. Gating!PassingMeansOffered'
  BY DEF Gating!PassingMeansOffered, Gating!SameFile
<1> QED
  BY <1>4, <1>5, <1>6, <1>7, <1>8

\* A verdict that is "ok" for what was served keeps the invariant.
LEMMA VerdictKept ==
  ASSUME GateInv, NEW p \in Processes, NEW to,
         UNCHANGED <<now, live, file, job, catalogue, served>>,
         at' = [at EXCEPT ![p] = "done"], verdict' = [verdict EXCEPT ![p] = to],
         to = "ok" => \E s \in served : Gating!SameFile(s.url, job[p].url) /\
           \A id \in IF job[p].id = None THEN Allowlist ELSE {job[p].id} :
             \E e \in s.entries : e.id = id /\ e.tools /\ e.context >= MinContext
  PROVE  GateInv'
<1> USE DEF GateInv, GateShape
<1>1. \A q \in Processes : at'[q] = IF q = p THEN "done" ELSE at[q]
  OBVIOUS
<1>2. GateShape'
  BY <1>1 DEF Gating!TypeOK
<1>3. FilesAreServed' /\ WritesAreServed'
  BY <1>1 DEF FilesAreServed, WritesAreServed
<1>4. Gating!CatalogueIsGenuine'
  BY DEF Gating!CatalogueIsGenuine, Gating!SameFile
<1>5. Gating!PassingMeansOffered'
  BY SMTT(30) DEF Gating!PassingMeansOffered, Gating!SameFile
<1> QED
  BY <1>2, <1>3, <1>4, <1>5

LEMMA GateStep == GateInv /\ [Gating!Next]_catalogueVars => GateInv'
<1> SUFFICES ASSUME GateInv, [Gating!Next]_catalogueVars PROVE GateInv'
  OBVIOUS
<1>1. ASSUME NEW p \in Processes, Gating!ReadCache(p) PROVE GateInv'
  <2>1. CASE Gating!FileOf(p).is = "whole" /\ now - Gating!FileOf(p).at < Ttl
    <3>1. PICK s \in served : /\ Gating!SameFile(s.url, job[p].url)
                              /\ s.entries = Gating!FileOf(p).entries /\ s.at = Gating!FileOf(p).at
      BY <2>1, FileAnswers
    <3>2. /\ served' = served /\ served \subseteq [url : Urls, at : Nat, entries : Catalogues]
          /\ \A t \in served : t.at <= now
      BY <1>1 DEF GateInv, GateShape, Gating!ReadCache
    <3>3. /\ catalogue' = [catalogue EXCEPT ![p] = [how |-> "cache", at |-> now, entries |-> s.entries]]
          /\ at' = [at EXCEPT ![p] = "gate"] /\ UNCHANGED <<now, live, file, job, verdict>>
      BY <1>1, <2>1, <3>1 DEF Gating!ReadCache, Gating!Goto
    <3>4. Answered(p, "cache", s, "gate")
      BY <2>1, <3>1, <3>2, <3>3 DEF Answered
    <3> QED
      BY <3>4, AnswerKept
  <2>2. CASE ~(Gating!FileOf(p).is = "whole" /\ now - Gating!FileOf(p).at < Ttl)
    <3>1. Gating!Absent \in Files /\ Gating!Absent.at = 0 /\ Gating!Absent.is # "whole" /\ now \in Nat
      BY DEF Gating!Absent, Files, Contents, GateInv, GateShape
    <3>2. at' = [at EXCEPT ![p] = "fetch"] /\ UNCHANGED <<now, live, file, job, catalogue, verdict, served>>
      BY <1>1, <2>2 DEF Gating!ReadCache, Gating!Goto
    <3>3. Filed(p, Gating!Absent, "fetch")
      BY <3>1, <3>2 DEF Filed
    <3> QED
      BY <3>3, FileKept
  <2> QED
    BY <2>1, <2>2
<1>2. ASSUME NEW p \in Processes, Gating!FetchLive(p) PROVE GateInv'
  <2> DEFINE s == [url |-> job[p].url, at |-> now, entries |-> live[job[p].url]]
  <2>1. job[p].url \in Urls /\ live[job[p].url] \in Catalogues /\ now \in Nat
    BY GatingAssumption DEF GateInv, GateShape, Gating!TypeOK, Gating!CatalogueAssumption
  <2>2. served' = served \cup {s}
    BY <1>2 DEF Gating!FetchLive
  <2>3. /\ s \in served' /\ served \subseteq served' /\ served' \subseteq [url : Urls, at : Nat, entries : Catalogues]
        /\ \A t \in served' : t.at <= now
    BY <2>1, <2>2 DEF GateInv, GateShape
  <2>4. s.url = job[p].url /\ s.at = now /\ s.entries = live[job[p].url]
    OBVIOUS
  <2>5. now - s.at < Ttl
    BY <2>1, <2>4, GatingAssumption DEF Gating!CatalogueAssumption
  <2>6. Gating!SameFile(s.url, job[p].url)
    BY <2>4 DEF Gating!SameFile
  <2>7. /\ catalogue' = [catalogue EXCEPT ![p] = [how |-> "live", at |-> now, entries |-> s.entries]]
        /\ at' = [at EXCEPT ![p] = "truncate"] /\ UNCHANGED <<now, live, file, job, verdict>>
    BY <1>2, <2>4 DEF Gating!FetchLive, Gating!Goto
  <2> HIDE DEF s
  <2>8. Answered(p, "live", s, "truncate")
    BY <2>3, <2>4, <2>5, <2>6, <2>7 DEF Answered
  <2> QED
    BY <2>8, AnswerKept
<1>3. ASSUME NEW p \in Processes, Gating!FallBack(p) PROVE GateInv'
  <2>1. CASE Gating!FileOf(p).is = "whole"
    <3>1. PICK s \in served : /\ Gating!SameFile(s.url, job[p].url)
                              /\ s.entries = Gating!FileOf(p).entries /\ s.at = Gating!FileOf(p).at
      BY <2>1, FileAnswers
    <3>2. /\ served' = served /\ served \subseteq [url : Urls, at : Nat, entries : Catalogues]
          /\ \A t \in served : t.at <= now
      BY <1>3, Zenon DEF GateInv, GateShape, Gating!FallBack
    <3>3. /\ catalogue' = [catalogue EXCEPT ![p] = [how |-> "stale", at |-> now, entries |-> s.entries]]
          /\ at' = [at EXCEPT ![p] = "gate"] /\ UNCHANGED <<now, live, file, job, verdict>>
      BY <1>3, <2>1, <3>1 DEF Gating!FallBack, Gating!Goto
    <3>4. Answered(p, "stale", s, "gate")
      BY <2>1, <3>1, <3>2, <3>3 DEF Answered
    <3> QED
      BY <3>4, AnswerKept
  <2>2. CASE ~(Gating!FileOf(p).is = "whole")
    <3>1. /\ at' = [at EXCEPT ![p] = "done"] /\ verdict' = [verdict EXCEPT ![p] = "provider error"]
          /\ UNCHANGED <<now, live, file, job, catalogue, served>>
      BY <1>3, <2>2, Zenon DEF Gating!FallBack, Gating!Goto
    <3> QED
      BY <3>1, VerdictKept, Zenon
  <2> QED
    BY <2>1, <2>2
<1>4. ASSUME NEW p \in Processes, Gating!Truncate(p) PROVE GateInv'
  <2>1. Gating!Torn \in Files /\ Gating!Torn.at = 0 /\ Gating!Torn.is # "whole" /\ now \in Nat
    BY DEF Gating!Torn, Files, Contents, GateInv, GateShape
  <2>2. /\ at[p] = "truncate" /\ at' = [at EXCEPT ![p] = "write"]
        /\ file' = [file EXCEPT ![KeyOf[job[p].url]] = Gating!Torn]
        /\ UNCHANGED <<now, live, job, catalogue, verdict, served>>
    BY <1>4 DEF Gating!Truncate, Gating!Goto
  <2>3. Filed(p, Gating!Torn, "write")
    BY <2>1, <2>2 DEF Filed
  <2> QED
    BY <2>3, FileKept
<1>5. ASSUME NEW p \in Processes, Gating!SkipWrite(p) \/ Gating!Kill(p) PROVE GateInv'
  <2>1. Gating!Absent \in Files /\ Gating!Absent.at = 0 /\ Gating!Absent.is # "whole" /\ now \in Nat
    BY DEF Gating!Absent, Files, Contents, GateInv, GateShape
  <2>2. at[p] \in {"truncate", "write"} /\ catalogue[p].how = "live"
    BY <1>5 DEF Gating!SkipWrite, Gating!Kill, GateInv, GateShape, Gating!TypeOK
  <2>3. UNCHANGED <<now, live, file, job, catalogue, verdict, served>>
    BY <1>5 DEF Gating!SkipWrite, Gating!Kill
  <2>4. PICK where \in {"gate", "done"} : at' = [at EXCEPT ![p] = where]
    BY <1>5 DEF Gating!SkipWrite, Gating!Kill, Gating!Goto
  <2>5. Filed(p, Gating!Absent, where)
    BY <2>1, <2>2, <2>3, <2>4 DEF Filed
  <2> QED
    BY <2>5, FileKept
<1>6. ASSUME NEW p \in Processes, Gating!Write(p) PROVE GateInv'
  <2> DEFINE new == Gating!Whole(catalogue[p].at, catalogue[p].entries)
             contents == Gating!Overlay(Gating!FileOf(p), new)
  <2>1. PICK s \in served : s = [url |-> job[p].url, at |-> catalogue[p].at, entries |-> catalogue[p].entries]
    BY <1>6 DEF Gating!Write, GateInv, WritesAreServed
  <2>2. contents = Gating!Torn \/ contents = new
    BY DEF Gating!Overlay
  <2>3. Gating!Torn \in Files /\ Gating!Torn.at = 0 /\ Gating!Torn.is # "whole" /\ now \in Nat
    BY DEF Gating!Torn, Files, Contents, GateInv, GateShape
  <2>4. new \in Files /\ new.at = s.at /\ new.entries = s.entries /\ s.url = job[p].url
    BY <2>1 DEF Gating!Whole, Files, Contents, GateInv, GateShape
  <2>5. s.at <= now
    BY DEF GateInv, GateShape
  <2>6. KeyOf[job[p].url] \in Gating!Keys /\ catalogue[p].how = "live"
    BY <1>6, GatingAssumption
    DEF Gating!Write, GateInv, GateShape, Gating!TypeOK, Gating!CatalogueAssumption, Gating!Keys
  <2>7. /\ file' = [file EXCEPT ![KeyOf[job[p].url]] = contents] /\ at' = [at EXCEPT ![p] = "gate"]
        /\ UNCHANGED <<now, live, job, catalogue, verdict, served>>
    BY <1>6, <2>6 DEF Gating!Write, Gating!Goto, Gating!FileOf
  <2> HIDE DEF new
  <2>8. contents \in Files /\ contents.at <= now
    BY <2>2, <2>3, <2>4, <2>5
  <2>9. contents.is = "whole" =>
          \E t \in served : KeyOf[t.url] = KeyOf[job[p].url] /\ t.entries = contents.entries /\ t.at = contents.at
    BY <2>2, <2>3, <2>4
  <2> HIDE DEF contents
  <2>10. Filed(p, contents, "gate")
    BY <2>6, <2>7, <2>8, <2>9 DEF Filed
  <2> QED
    BY <2>10, FileKept
<1>7. ASSUME NEW p \in Processes, Gating!Gate(p) PROVE GateInv'
  <2>1. PICK s \in served : Gating!SameFile(s.url, job[p].url) /\ s.entries = catalogue[p].entries
    BY <1>7 DEF Gating!Gate, GateInv, GateShape, Gating!TypeOK, Gating!CatalogueIsGenuine
  <2>2. s.entries \in Catalogues /\ job[p] \in Jobs
    BY DEF GateInv, GateShape, Gating!TypeOK
  <2>3. Gating!Verdict(job[p], s.entries) = "ok" =>
          \A id \in IF job[p].id = None THEN Allowlist ELSE {job[p].id} :
            \E e \in s.entries : e.id = id /\ e.tools /\ e.context >= MinContext
    BY <2>2, VerdictIsSound
  <2>4. verdict' = [verdict EXCEPT ![p] = Gating!Verdict(job[p], s.entries)]
    BY <1>7, <2>1 DEF Gating!Gate
  <2> QED
    BY <1>7, <2>1, <2>3, <2>4, VerdictKept DEF Gating!Gate, Gating!Goto
<1>8. CASE Gating!Tick
  <2>1. now \in Nat /\ now < MaxTime /\ MaxTime \in Nat /\ now' = now + 1
    BY <1>8, GatingAssumption DEF Gating!Tick, GateInv, GateShape, Gating!CatalogueAssumption
  <2>2. now' \in 0..MaxTime /\ now' \in Nat /\ (\A n \in 0..now : n \in 0..now')
    BY <2>1
  <2>3. \A s \in served : s.at \in Nat /\ s.at <= now'
    BY <2>1 DEF GateInv, GateShape
  <2>4. UNCHANGED <<live, file, at, job, catalogue, verdict, served>>
    BY <1>8 DEF Gating!Tick
  <2>5. GateShape'
    BY <2>2, <2>3, <2>4 DEF GateInv, GateShape, Gating!TypeOK
  <2>6. (FilesAreServed /\ WritesAreServed)'
    BY <2>4 DEF GateInv, FilesAreServed, WritesAreServed
  <2>7. (Gating!CatalogueIsGenuine /\ Gating!PassingMeansOffered)'
    BY <2>4 DEF GateInv, Gating!CatalogueIsGenuine, Gating!PassingMeansOffered, Gating!SameFile
  <2> QED
    BY <2>5, <2>6, <2>7 DEF GateInv
<1>9. ASSUME NEW u \in Urls, Gating!Relist(u) PROVE GateInv'
  BY <1>9 DEF Gating!Relist, GateInv, GateShape, FilesAreServed, WritesAreServed, Gating!TypeOK,
     Gating!CatalogueIsGenuine, Gating!PassingMeansOffered, Gating!SameFile
<1>10. CASE UNCHANGED catalogueVars
  BY <1>10 DEF catalogueVars, GateInv, GateShape, FilesAreServed, WritesAreServed, Gating!TypeOK,
     Gating!CatalogueIsGenuine, Gating!PassingMeansOffered, Gating!SameFile
<1> QED
  BY <1>1, <1>2, <1>3, <1>4, <1>5, <1>6, <1>7, <1>8, <1>9, <1>10 DEF Gating!Next, Gating!Step

----------------------------------------------------------------------------
(* Runs and a user in one clone.                                           *)

Own(r) == [by |-> r, in |-> Section[r]]
Tree == [head : DOMAIN branches, unstaged : SUBSET Edits, staged : SUBSET Edits]
InItsTree == {"settle", "index", "loop", "add", "diff", "commit", "sha", "teardown"}

\* The shape of the variables, which TypeOK leaves open where it says nothing.
CloneShape ==
  /\ mode \in [Runs -> {"worktree", "inplace", "dry"}] /\ pc \in [Runs -> Where]
  /\ left \in [Runs -> Codes \cup {Unknown}] /\ exit \in [Runs -> Codes \cup {Unknown}]
  /\ commit \in [Runs -> {"none", "made", "error"}] /\ holds \in [Runs -> SUBSET Edits]
  /\ branches \in [DOMAIN branches -> SUBSET Edits]
  /\ Main \in DOMAIN trees /\ DOMAIN trees \subseteq Isolated \cup {Main}
  /\ trees \in [DOMAIN trees -> Tree]
  /\ DOMAIN base \subseteq Runs /\ made \subseteq Authors

\* Every branch but the trunk is the one of the run that created it, the clone
\* never has an isolated run's branch checked out, and the tree of an isolated
\* run has that branch checked out and nobody else's edits in it.
BranchesHaveOwners ==
  /\ DOMAIN branches = {Trunk} \cup {BranchOf[q] : q \in DOMAIN base}
  /\ \A q, r \in DOMAIN base : BranchOf[q] = BranchOf[r] => q = r
  /\ \A r \in Isolated \cap DOMAIN base : trees[Main].head # BranchOf[r]
  /\ \A r \in DOMAIN trees \ {Main} :
       r \in DOMAIN base /\ trees[r].head = BranchOf[r] /\ Held(r) \subseteq {Own(r)}

\* Where the edit of an isolated run is, from the loop to the report.
EditIsKept(r) ==
  /\ pc[r] \in {"loop", "add"} => Own(r) \in trees[r].unstaged
  /\ pc[r] \in {"diff", "commit"} => Own(r) \in trees[r].staged
  /\ pc[r] = "sha" => Own(r) \in branches[BranchOf[r]]
  /\ pc[r] \in {"teardown", "report"} => commit[r] = "error" \/ Own(r) \in branches[BranchOf[r]]
  /\ pc[r] = "exited" => exit[r] = "unrecoverable" \/ Own(r) \in branches[BranchOf[r]]

\* An isolated run has its tree while it works and its branch from then on, and
\* what it says it committed is on that branch.
RunInv(r) ==
  /\ pc[r] \in InItsTree => r \in DOMAIN trees
  /\ pc[r] \in InItsTree \cup {"report"} \/ r \in made \/ commit[r] # "none" => r \in DOMAIN base
  /\ pc[r] \in {"preflight", "configure", "branch", "settle", "index"} => r \notin made
  /\ commit[r] # "none" => pc[r] \in {"teardown", "report", "exited", "killed"}
  /\ commit[r] = "made" => holds[r] = branches[BranchOf[r]]
  /\ r \in made => EditIsKept(r)

CloneInv ==
  /\ CloneShape /\ BranchesHaveOwners /\ (\A r \in Isolated : RunInv(r))
  /\ IsolatedBranchHoldsOwnWork /\ NobodysWorkIsLost

LEMMA CloneIsSafe == CloneInv => WorkIsSafe
<1> SUFFICES ASSUME CloneInv PROVE WorkIsSafe
  OBVIOUS
<1> USE DEF CloneInv
<1>1. TypeOK
  BY DEF TypeOK, CloneShape, Tree, RunInv, InItsTree, TreeOf
<1>2. ReportIsTrue
  BY DEF ReportIsTrue, RunInv, EditIsKept, Own
<1> QED
  BY <1>1, <1>2 DEF WorkIsSafe

LEMMA CloneStarts ==
  ASSUME mode \in [Runs -> {"worktree", "inplace", "dry"}],
         NEW where \in {"preflight", "killed"}, pc = [r \in Runs |-> where],
         branches = Only(Trunk, {}), trees = Only(Main, [head |-> Trunk, unstaged |-> {}, staged |-> {}]),
         left = [r \in Runs |-> Unknown], exit = [r \in Runs |-> Unknown],
         commit = [r \in Runs |-> "none"], holds = [r \in Runs |-> {}], base = <<>>, made = {}
  PROVE  CloneInv
<1>1. DOMAIN branches = {Trunk} /\ branches[Trunk] = {}
  BY DEF Only
<1>2. DOMAIN trees = {Main} /\ trees[Main] = [head |-> Trunk, unstaged |-> {}, staged |-> {}]
  BY DEF Only
<1>3. DOMAIN base = {}
  OBVIOUS
<1>4. CloneShape
  <2>1. branches \in [DOMAIN branches -> SUBSET Edits]
    BY <1>1 DEF Only
  <2>2. [head |-> Trunk, unstaged |-> {}, staged |-> {}] \in Tree
    BY <1>1 DEF Tree
  <2>3. trees \in [DOMAIN trees -> Tree]
    BY <2>2 DEF Only
  <2>4. /\ pc \in [Runs -> Where] /\ left \in [Runs -> Codes \cup {Unknown}]
        /\ exit \in [Runs -> Codes \cup {Unknown}] /\ holds \in [Runs -> SUBSET Edits]
    BY DEF Where
  <2>5. commit \in [Runs -> {"none", "made", "error"}]
    OBVIOUS
  <2>6. Main \in DOMAIN trees /\ DOMAIN trees \subseteq Isolated \cup {Main}
    BY <1>2
  <2> QED
    BY <1>3, <2>1, <2>3, <2>4, <2>5, <2>6 DEF CloneShape
<1>5. BranchesHaveOwners
  BY <1>1, <1>2, <1>3 DEF BranchesHaveOwners
<1>6. \A r \in Isolated : RunInv(r)
  BY DEF RunInv, InItsTree, Isolated
<1>7. IsolatedBranchHoldsOwnWork /\ NobodysWorkIsLost
  BY <1>3 DEF IsolatedBranchHoldsOwnWork, NobodysWorkIsLost
<1> QED
  BY <1>4, <1>5, <1>6, <1>7 DEF CloneInv

LEMMA CloneInitial == Init => CloneInv
  BY CloneStarts DEF Init

LEMMA CloneStandsStill == NoRuns => CloneInv
<1> SUFFICES ASSUME NoRuns PROVE CloneInv
  OBVIOUS
<1>1. mode \in [Runs -> {"worktree", "inplace", "dry"}]
  BY DEF NoRuns
<1> QED
  BY <1>1, CloneStarts DEF NoRuns

\* Run r goes on, and neither a branch nor a tree changes.
Moved(r) ==
  /\ UNCHANGED <<mode, branches, trees, base, made>>
  /\ pc' \in [Runs -> Where] /\ left' \in [Runs -> Codes \cup {Unknown}]
  /\ exit' \in [Runs -> Codes \cup {Unknown}]
  /\ commit' \in [Runs -> {"none", "made", "error"}] /\ holds' \in [Runs -> SUBSET Edits]
  /\ \A q \in Runs \ {r} :
       /\ pc'[q] = pc[q] /\ exit'[q] = exit[q]
       /\ commit'[q] = commit[q] /\ holds'[q] = holds[q]
  /\ r \in Isolated /\ commit[r] = "error" => commit'[r] = "error"

LEMMA MoveKept ==
  ASSUME CloneInv, NEW r \in Runs, Moved(r), r \in Isolated => RunInv(r)'
  PROVE  CloneInv'
<1> USE DEF CloneInv, Moved
<1>1. Isolated' = Isolated /\ Isolated \subseteq Runs
  BY DEF Isolated
<1>2. CloneShape'
  BY <1>1 DEF CloneShape, Tree
<1>3. BranchesHaveOwners'
  BY <1>1 DEF BranchesHaveOwners, Held
<1>4. \A q \in Isolated : RunInv(q)'
  <2>1. ASSUME NEW q \in Isolated, q # r PROVE RunInv(q)'
    <3>1. /\ pc'[q] = pc[q] /\ exit'[q] = exit[q]
          /\ commit'[q] = commit[q] /\ holds'[q] = holds[q]
      BY <1>1, <2>1
    <3> QED
      BY <2>1, <3>1 DEF RunInv, EditIsKept
  <2> QED
    BY <2>1
<1>5. IsolatedBranchHoldsOwnWork'
  BY <1>1 DEF IsolatedBranchHoldsOwnWork
<1>6. NobodysWorkIsLost'
  <2>1. ASSUME NEW a \in made
        PROVE  \/ \E b \in DOMAIN branches : \E e \in branches[b] : e.by = a
               \/ \E t \in DOMAIN trees : \E e \in Held(t) : e.by = a
               \/ a \in Isolated /\ commit'[a] = "error"
    BY <1>1, <2>1 DEF NobodysWorkIsLost
  <2>2. \A t : Held(t)' = Held(t)
    BY DEF Held
  <2> QED
    BY <1>1, <2>1, <2>2 DEF NobodysWorkIsLost
<1> QED
  BY <1>1, <1>2, <1>3, <1>4, <1>5, <1>6

\* A run that goes on or exits without a change of its branch or its tree.
LEMMA MoveStep ==
  ASSUME CloneInv, NEW r \in Runs,
         \/ PreflightPasses(r) \/ PreflightRefuses(r) \/ Configure(r) \/ BranchFails(r)
         \/ Settle(r) \/ BuildIndex(r) \/ LoopEnds(r) \/ Diff(r) \/ ReadSha(r)
         \/ CommitFails(r) \/ Report(r) \/ Kill(r)
  PROVE  CloneInv'
<1>1. CloneShape /\ (r \in Isolated => RunInv(r)) /\ BranchesHaveOwners
  BY DEF CloneInv
<1>2. CASE PreflightPasses(r)
  <2>1. Moved(r)
    BY <1>1, <1>2 DEF PreflightPasses, Moved, Goto, Exit, postflight, CloneShape, Where, Codes
  <2>2. r \in Isolated => RunInv(r)'
    BY <1>1, <1>2 DEF PreflightPasses, Goto, Exit, postflight, CloneShape, RunInv, EditIsKept, InItsTree
  <2> QED
    BY <2>1, <2>2, MoveKept
<1>3. CASE PreflightRefuses(r)
  <2>1. Moved(r)
    BY <1>1, <1>3 DEF PreflightRefuses, Moved, Goto, Exit, postflight, CloneShape, Where, Codes
  <2>2. r \in Isolated => RunInv(r)'
    BY <1>1, <1>3 DEF PreflightRefuses, Goto, Exit, postflight, CloneShape, RunInv, EditIsKept, InItsTree
  <2> QED
    BY <2>1, <2>2, MoveKept
<1>4. CASE Configure(r)
  <2>1. Moved(r)
    BY <1>1, <1>4 DEF Configure, Moved, Goto, Exit, postflight, CloneShape, Where, Codes
  <2>2. r \in Isolated => RunInv(r)'
    <3> SUFFICES ASSUME r \in Isolated PROVE RunInv(r)'
      OBVIOUS
    <3>1. /\ pc[r] = "configure" /\ pc'[r] \in {"branch", "exited"} /\ UNCHANGED <<commit, holds>>
      BY <1>1, <1>4 DEF Configure, Goto, Exit, postflight, CloneShape, Isolated, Dry
    <3> QED
      BY <1>1, <2>1, <3>1 DEF Moved, RunInv, EditIsKept, InItsTree
  <2> QED
    BY <2>1, <2>2, MoveKept
<1>5. CASE BranchFails(r)
  <2>1. Moved(r)
    BY <1>1, <1>5 DEF BranchFails, Moved, Goto, Exit, postflight, CloneShape, Where, Codes
  <2>2. r \in Isolated => RunInv(r)'
    BY <1>1, <1>5 DEF BranchFails, Goto, Exit, postflight, CloneShape, RunInv, EditIsKept, InItsTree
  <2> QED
    BY <2>1, <2>2, MoveKept
<1>6. CASE Settle(r)
  <2>1. Moved(r)
    BY <1>1, <1>6 DEF Settle, Moved, Goto, Exit, postflight, CloneShape, Where, Codes
  <2>2. r \in Isolated => RunInv(r)'
    BY <1>1, <1>6 DEF Settle, Goto, Exit, postflight, CloneShape, RunInv, EditIsKept, InItsTree
  <2> QED
    BY <2>1, <2>2, MoveKept
<1>7. CASE BuildIndex(r)
  <2>1. Moved(r)
    BY <1>1, <1>7 DEF BuildIndex, Moved, Goto, Exit, postflight, CloneShape, Where, Codes
  <2>2. r \in Isolated => RunInv(r)'
    BY <1>1, <1>7 DEF BuildIndex, Goto, Exit, postflight, CloneShape, RunInv, EditIsKept, InItsTree
  <2> QED
    BY <2>1, <2>2, MoveKept
<1>8. CASE LoopEnds(r)
  <2>1. Moved(r)
    BY <1>1, <1>8 DEF LoopEnds, Moved, Goto, Exit, postflight, CloneShape, Where, Codes
  <2>2. r \in Isolated => RunInv(r)'
    <3> SUFFICES ASSUME r \in Isolated PROVE RunInv(r)'
      OBVIOUS
    <3>1. /\ pc[r] = "loop" /\ pc'[r] = "add" /\ UNCHANGED <<commit, holds, exit>>
      BY <1>1, <1>8 DEF LoopEnds, Goto, Exit, postflight, CloneShape, Isolated, Dry
    <3> QED
      BY <1>1, <2>1, <3>1 DEF Moved, RunInv, EditIsKept, InItsTree
  <2> QED
    BY <2>1, <2>2, MoveKept
<1>9. CASE Diff(r)
  <2>1. Moved(r)
    BY <1>1, <1>9 DEF Diff, Moved, Goto, Exit, postflight, CloneShape, Where, Codes
  <2>2. r \in Isolated => RunInv(r)'
    <3> SUFFICES ASSUME r \in Isolated PROVE RunInv(r)'
      OBVIOUS
    <3>1. /\ pc[r] = "diff" /\ pc'[r] = IF trees[r].staged = {} THEN "teardown" ELSE "commit"
          /\ UNCHANGED <<commit, holds, exit>>
      BY <1>1, <1>9 DEF Diff, Goto, Exit, postflight, CloneShape, TreeOf
    <3> QED
      BY <1>1, <2>1, <3>1 DEF Moved, RunInv, EditIsKept, InItsTree
  <2> QED
    BY <2>1, <2>2, MoveKept
<1>10. CASE ReadSha(r)
  <2>1. Moved(r)
    <3>1. pc[r] = "sha" /\ TreeOf(r) \in DOMAIN trees
      BY <1>1, <1>10 DEF ReadSha, TreeOf, RunInv, InItsTree, CloneShape
    <3>2. HeadCommit(TreeOf(r)) \in SUBSET Edits
      BY <1>1, <3>1 DEF HeadCommit, CloneShape, Tree
    <3>3. /\ commit' = [commit EXCEPT ![r] = "made"] /\ holds' = [holds EXCEPT ![r] = HeadCommit(TreeOf(r))]
          /\ pc' = [pc EXCEPT ![r] = "teardown"]
          /\ UNCHANGED <<mode, branches, trees, left, exit, base, made>>
      BY <1>10 DEF ReadSha, Goto
    <3>4. r \in Isolated => commit[r] # "error"
      BY <1>1, <3>1 DEF RunInv
    <3> QED
      BY <1>1, <3>2, <3>3, <3>4 DEF Moved, CloneShape, Where
  <2>2. r \in Isolated => RunInv(r)'
    <3> SUFFICES ASSUME r \in Isolated PROVE RunInv(r)'
      OBVIOUS
    <3>1. pc[r] = "sha" /\ pc'[r] = "teardown" /\ commit'[r] = "made" /\ holds'[r] = HeadCommit(TreeOf(r))
      BY <1>1, <1>10 DEF ReadSha, Goto, CloneShape
    <3>2. r \in DOMAIN trees /\ r \in DOMAIN base /\ (r \in made => Own(r) \in branches[BranchOf[r]])
      BY <1>1, <3>1 DEF RunInv, EditIsKept, InItsTree
    <3>3. TreeOf(r) = r /\ r # Main
      BY RepositoryAssumption DEF TreeOf, Isolated
    <3>4. trees[r].head = BranchOf[r]
      BY <1>1, <3>2, <3>3 DEF BranchesHaveOwners
    <3>5. holds'[r] = branches[BranchOf[r]]
      BY <3>1, <3>3, <3>4 DEF HeadCommit
    <3> QED
      BY <2>1, <3>1, <3>2, <3>5 DEF Moved, RunInv, EditIsKept, InItsTree
  <2> QED
    BY <2>1, <2>2, MoveKept
<1>11. CASE CommitFails(r)
  <2>1. Moved(r)
    BY <1>1, <1>11 DEF CommitFails, Moved, Goto, Exit, postflight, CloneShape, Where, Codes
  <2>2. r \in Isolated => RunInv(r)'
    <3> SUFFICES ASSUME r \in Isolated PROVE RunInv(r)'
      OBVIOUS
    <3>1. /\ pc[r] \in {"add", "diff", "commit", "sha"} /\ pc'[r] = "teardown"
          /\ commit'[r] = "error" /\ exit' = exit
      BY <1>1, <1>11 DEF CommitFails, Goto, Exit, postflight, CloneShape
    <3> QED
      BY <1>1, <2>1, <3>1 DEF Moved, RunInv, EditIsKept, InItsTree
  <2> QED
    BY <2>1, <2>2, MoveKept
<1>12. CASE Report(r)
  <2>1. Moved(r)
    BY <1>1, <1>12 DEF Report, Moved, Goto, Exit, postflight, CloneShape, Where, Codes
  <2>2. r \in Isolated => RunInv(r)'
    <3> SUFFICES ASSUME r \in Isolated PROVE RunInv(r)'
      OBVIOUS
    <3>1. /\ pc[r] = "report" /\ pc'[r] = "exited"
          /\ commit' = commit /\ holds' = holds
          /\ commit[r] = "error" => exit'[r] = "unrecoverable"
      BY <1>1, <1>12 DEF Report, Goto, Exit, postflight, CloneShape
    <3> QED
      BY <1>1, <2>1, <3>1 DEF Moved, RunInv, EditIsKept, InItsTree
  <2> QED
    BY <2>1, <2>2, MoveKept
<1>13. CASE Kill(r)
  <2>1. Moved(r)
    BY <1>1, <1>13 DEF Kill, Moved, Goto, Exit, postflight, CloneShape, Where, Codes
  <2>2. r \in Isolated => RunInv(r)'
    <3> SUFFICES ASSUME r \in Isolated PROVE RunInv(r)'
      OBVIOUS
    <3>1. pc[r] \notin {"exited", "killed"} /\ pc'[r] = "killed" /\ UNCHANGED <<commit, holds, exit>>
      BY <1>1, <1>13 DEF Kill, Goto, Exit, postflight, CloneShape
    <3> QED
      BY <1>1, <2>1, <3>1 DEF Moved, RunInv, EditIsKept, InItsTree
  <2> QED
    BY <2>1, <2>2, MoveKept
<1> QED
  BY <1>2, <1>3, <1>4, <1>5, <1>6, <1>7, <1>8, <1>9, <1>10, <1>11, <1>12, <1>13

\* What a run's new branch is, beside the branches there were.
LEMMA BranchIsAdded ==
  ASSUME CloneInv, NEW r \in Runs, NewBranch(r)
  PROVE  /\ r \notin DOMAIN base /\ r \notin DOMAIN trees
         /\ DOMAIN base' = DOMAIN base \cup {r}
         /\ \A q \in DOMAIN base : base'[q] = base[q]
         /\ DOMAIN branches' = DOMAIN branches \cup {BranchOf[r]}
         /\ \A b \in DOMAIN branches : branches'[b] = branches[b]
         /\ branches'[BranchOf[r]] = base'[r]
         /\ branches' \in [DOMAIN branches' -> SUBSET Edits]
         /\ DOMAIN branches' = {Trunk} \cup {BranchOf[q] : q \in DOMAIN base'}
         /\ \A p, q \in DOMAIN base' : BranchOf[p] = BranchOf[q] => p = q
<1> USE DEF CloneInv
<1>1. BranchOf[r] \notin DOMAIN branches
  BY DEF NewBranch
<1>2. r \notin DOMAIN base /\ \A q \in DOMAIN base : BranchOf[q] # BranchOf[r]
  BY <1>1 DEF BranchesHaveOwners
<1>3. r \notin DOMAIN trees
  BY <1>2, RepositoryAssumption DEF BranchesHaveOwners
<1>4. /\ DOMAIN base' = DOMAIN base \cup {r} /\ base'[r] = HeadCommit(Main)
      /\ \A q \in DOMAIN base : base'[q] = base[q]
  BY <1>2 DEF NewBranch, With
<1>5. /\ DOMAIN branches' = DOMAIN branches \cup {BranchOf[r]} /\ branches'[BranchOf[r]] = HeadCommit(Main)
      /\ \A b \in DOMAIN branches : branches'[b] = branches[b]
  BY <1>1 DEF NewBranch, With
<1>6. HeadCommit(Main) \in SUBSET Edits
  BY DEF HeadCommit, CloneShape, Tree
<1>7. branches' \in [DOMAIN branches' -> SUBSET Edits]
  <2>1. branches' = [b \in DOMAIN branches' |-> branches'[b]]
    BY DEF NewBranch, With
  <2>2. \A b \in DOMAIN branches' : branches'[b] \in SUBSET Edits
    BY <1>5, <1>6 DEF CloneShape
  <2> QED
    BY <2>1, <2>2
<1>8. DOMAIN branches' = {Trunk} \cup {BranchOf[q] : q \in DOMAIN base'}
  BY <1>4, <1>5 DEF BranchesHaveOwners
<1>9. \A p, q \in DOMAIN base' : BranchOf[p] = BranchOf[q] => p = q
  BY <1>2, <1>4 DEF BranchesHaveOwners
<1> QED
  BY <1>2, <1>3, <1>4, <1>5, <1>7, <1>8, <1>9

\* Where edits only move or are joined by others, none is lost.
LEMMA NothingIsLost ==
  ASSUME NobodysWorkIsLost, UNCHANGED <<mode, made, commit>>,
         \A b \in DOMAIN branches : b \in DOMAIN branches' /\ branches[b] \subseteq branches'[b],
         \A t \in DOMAIN trees : \A e \in Held(t) :
           \/ t \in DOMAIN trees' /\ e \in Held(t)'
           \/ \E b \in DOMAIN branches' : e \in branches'[b]
  PROVE  NobodysWorkIsLost'
<1> SUFFICES ASSUME NEW a \in made
             PROVE  \/ \E b \in DOMAIN branches' : \E e \in branches'[b] : e.by = a
                    \/ \E t \in DOMAIN trees' : \E e \in Held(t)' : e.by = a
                    \/ a \in Isolated /\ commit[a] = "error"
  BY DEF NobodysWorkIsLost, Isolated
<1>1. CASE \E b \in DOMAIN branches : \E e \in branches[b] : e.by = a
  BY <1>1
<1>2. CASE \E t \in DOMAIN trees : \E e \in Held(t) : e.by = a
  <2>1. PICK t \in DOMAIN trees : \E e \in Held(t) : e.by = a
    BY <1>2
  <2>2. PICK e \in Held(t) : e.by = a
    BY <2>1
  <2> QED
    BY <2>2
<1>3. CASE a \in Isolated /\ commit[a] = "error"
  BY <1>3
<1> QED
  BY <1>1, <1>2, <1>3 DEF NobodysWorkIsLost

LEMMA BranchStep ==
  ASSUME CloneInv, NEW r \in Runs, AddWorktree(r) \/ CreateBranch(r)
  PROVE  CloneInv'
<1> DEFINE new == [head |-> BranchOf[r], unstaged |-> {}, staged |-> {}]
<1>1. /\ NewBranch(r) /\ pc[r] = "branch" /\ UNCHANGED <<mode, left, commit, holds, exit, made>>
      /\ pc' = [pc EXCEPT ![r] = IF r \in Isolated THEN "settle" ELSE "index"]
      /\ Isolated' = Isolated
  BY DEF AddWorktree, CreateBranch, Goto, postflight, Isolated
<1>2. /\ r \notin DOMAIN base /\ r \notin DOMAIN trees
      /\ DOMAIN base' = DOMAIN base \cup {r}
      /\ \A q \in DOMAIN base : base'[q] = base[q]
      /\ DOMAIN branches' = DOMAIN branches \cup {BranchOf[r]}
      /\ \A b \in DOMAIN branches : branches'[b] = branches[b]
      /\ branches'[BranchOf[r]] = base'[r]
      /\ branches' \in [DOMAIN branches' -> SUBSET Edits]
      /\ DOMAIN branches' = {Trunk} \cup {BranchOf[q] : q \in DOMAIN base'}
      /\ \A p, q \in DOMAIN base' : BranchOf[p] = BranchOf[q] => p = q
  BY <1>1, BranchIsAdded
<1>3. BranchOf[r] \notin DOMAIN branches
  BY <1>1 DEF NewBranch
<1> USE DEF CloneInv
<1>4. CASE r \in Isolated
  <2>1. trees' = With(trees, r, new)
    BY <1>4 DEF AddWorktree, CreateBranch
  <2>2. DOMAIN trees' = DOMAIN trees \cup {r} /\ trees'[r] = new /\ \A t \in DOMAIN trees : trees'[t] = trees[t]
    BY <1>2, <2>1 DEF With
  <2>3. new \in Tree' /\ Tree \subseteq Tree'
    BY <1>2 DEF Tree
  <2>4. trees' \in [DOMAIN trees' -> Tree']
    <3>1. \A t \in DOMAIN trees' : trees'[t] \in Tree'
      BY <2>2, <2>3 DEF CloneShape
    <3>2. trees' = [t \in DOMAIN trees' |-> trees'[t]]
      BY <2>1 DEF With
    <3> QED
      BY <3>1, <3>2
  <2>5. CloneShape'
    BY <1>1, <1>2, <1>4, <2>2, <2>4 DEF CloneShape, Where
  <2>6. Main \in DOMAIN trees /\ trees[Main].head \in DOMAIN branches
    BY DEF CloneShape, Tree
  <2>7. \A t \in DOMAIN trees : Held(t)' = Held(t)
    BY <2>2 DEF Held
  <2>8. Held(r)' = {}
    BY <2>2 DEF Held
  <2>9. BranchesHaveOwners'
    <3>1. \A q \in Isolated \cap DOMAIN base' : trees'[Main].head # BranchOf[q]
      BY <1>2, <1>3, <2>2, <2>6 DEF BranchesHaveOwners
    <3>2. \A q \in DOMAIN trees' \ {Main} :
            q \in DOMAIN base' /\ trees'[q].head = BranchOf[q] /\ Held(q)' \subseteq {Own(q)}
      BY <1>2, <2>2, <2>7, <2>8 DEF BranchesHaveOwners
    <3> QED
      BY <1>1, <1>2, <3>1, <3>2 DEF BranchesHaveOwners
  <2>10. \A q \in Isolated : RunInv(q)'
    <3>1. RunInv(r)'
      BY <1>1, <1>2, <1>4, <2>2 DEF RunInv, EditIsKept, InItsTree, CloneShape
    <3>2. ASSUME NEW q \in Isolated, q # r PROVE RunInv(q)'
      <4>1. q \in DOMAIN base => BranchOf[q] \in DOMAIN branches
        BY DEF BranchesHaveOwners
      <4>2. pc'[q] = pc[q] /\ RunInv(q)
        BY <1>1, <3>2 DEF Isolated, CloneShape
      <4>3. q \in DOMAIN trees => trees'[q] = trees[q]
        BY <2>2
      <4>4. q \in DOMAIN base => branches'[BranchOf[q]] = branches[BranchOf[q]]
        BY <1>2, <4>1
      <4> QED
        BY <1>1, <1>2, <2>2, <4>2, <4>3, <4>4 DEF RunInv, EditIsKept, InItsTree
    <3> QED
      BY <3>1, <3>2
  <2>11. IsolatedBranchHoldsOwnWork'
    BY <1>1, <1>2 DEF IsolatedBranchHoldsOwnWork, BranchesHaveOwners
  <2>12. NobodysWorkIsLost'
    BY <1>1, <1>2, <2>2, <2>7, NothingIsLost
  <2> QED
    BY <1>1, <2>5, <2>9, <2>10, <2>11, <2>12
<1>5. CASE r \notin Isolated
  <2>1. trees' = [trees EXCEPT ![Main].head = BranchOf[r]]
    BY <1>5 DEF AddWorktree, CreateBranch
  <2>2. /\ DOMAIN trees' = DOMAIN trees /\ trees'[Main] = [trees[Main] EXCEPT !.head = BranchOf[r]]
        /\ \A t \in DOMAIN trees \ {Main} : trees'[t] = trees[t]
    BY <2>1 DEF CloneShape
  <2>3. trees[Main] \in Tree /\ Tree \subseteq Tree' /\ BranchOf[r] \in DOMAIN branches'
    BY <1>2 DEF Tree, CloneShape
  <2>4. /\ trees'[Main] \in Tree' /\ trees'[Main].head = BranchOf[r]
        /\ trees'[Main].unstaged = trees[Main].unstaged /\ trees'[Main].staged = trees[Main].staged
    BY <2>2, <2>3 DEF Tree
  <2>5. trees' \in [DOMAIN trees' -> Tree']
    <3>1. \A t \in DOMAIN trees' : trees'[t] \in Tree'
      BY <2>2, <2>3, <2>4 DEF CloneShape
    <3>2. trees' = [t \in DOMAIN trees' |-> trees'[t]]
      BY <2>1
    <3> QED
      BY <3>1, <3>2
  <2>6. CloneShape'
    BY <1>1, <1>2, <1>5, <2>2, <2>5 DEF CloneShape, Where
  <2>7. \A t \in DOMAIN trees : Held(t)' = Held(t)
    BY <2>2, <2>4 DEF Held
  <2>8. BranchesHaveOwners'
    <3>1. \A q \in Isolated \cap DOMAIN base' : trees'[Main].head # BranchOf[q]
      BY <1>2, <1>5, <2>4 DEF BranchesHaveOwners
    <3>2. \A q \in DOMAIN trees' \ {Main} :
            q \in DOMAIN base' /\ trees'[q].head = BranchOf[q] /\ Held(q)' \subseteq {Own(q)}
      BY <1>2, <2>2, <2>7 DEF BranchesHaveOwners
    <3> QED
      BY <1>1, <1>2, <3>1, <3>2 DEF BranchesHaveOwners
  <2>9. \A q \in Isolated : RunInv(q)'
    <3> SUFFICES ASSUME NEW q \in Isolated PROVE RunInv(q)'
      OBVIOUS
    <3>1. q # r /\ q # Main /\ q \in Runs
      BY <1>5, RepositoryAssumption DEF Isolated
    <3>2. pc'[q] = pc[q] /\ RunInv(q)
      BY <1>1, <3>1 DEF CloneShape
    <3>3. q \in DOMAIN trees => trees'[q] = trees[q]
      BY <2>2, <3>1
    <3>4. q \in DOMAIN base => branches'[BranchOf[q]] = branches[BranchOf[q]]
      BY <1>2 DEF BranchesHaveOwners
    <3> QED
      BY <1>1, <1>2, <2>2, <3>2, <3>3, <3>4 DEF RunInv, EditIsKept, InItsTree
  <2>10. IsolatedBranchHoldsOwnWork'
    BY <1>1, <1>2, <1>5 DEF IsolatedBranchHoldsOwnWork, BranchesHaveOwners
  <2>11. NobodysWorkIsLost'
    BY <1>1, <1>2, <2>2, <2>7, NothingIsLost
  <2> QED
    BY <1>1, <2>6, <2>8, <2>9, <2>10, <2>11
<1> QED
  BY <1>4, <1>5

\* The tree a run works in is there, an isolated one has its own.
LEMMA RunHasItsTree ==
  ASSUME CloneInv, NEW r \in Runs, pc[r] \in InItsTree
  PROVE  /\ TreeOf(r) \in DOMAIN trees /\ trees[TreeOf(r)] \in Tree
         /\ r \in Isolated => TreeOf(r) = r /\ r # Main /\ r \in DOMAIN base /\ trees[r].head = BranchOf[r]
         /\ r \notin Isolated => TreeOf(r) = Main
<1>1. CASE r \in Isolated
  BY <1>1, RepositoryAssumption DEF CloneInv, CloneShape, RunInv, BranchesHaveOwners, TreeOf
<1>2. CASE r \notin Isolated
  BY <1>2 DEF CloneInv, CloneShape, TreeOf
<1> QED
  BY <1>1, <1>2

\* Only what one tree holds changes: t becomes one that has the same branch
\* checked out.
Kept(tree) == tree.unstaged \cup tree.staged
Rewritten(t, tree) ==
  /\ trees' = [trees EXCEPT ![t] = tree]
  /\ t \in DOMAIN trees /\ tree \in Tree /\ tree.head = trees[t].head
  /\ t # Main => Kept(tree) \subseteq {Own(t)}
  /\ UNCHANGED <<mode, branches, left, commit, holds, exit, base>>

LEMMA TreeKept ==
  ASSUME CloneInv, NEW t, NEW tree, Rewritten(t, tree),
         pc' \in [Runs -> Where], made' \subseteq Authors,
         \A r \in Isolated : RunInv(r)', NobodysWorkIsLost'
  PROVE  CloneInv'
<1> USE DEF CloneInv, Rewritten
<1>1. Isolated' = Isolated /\ Tree' = Tree
  BY DEF Isolated, Tree
<1>2. DOMAIN trees' = DOMAIN trees /\ \A u \in DOMAIN trees : trees'[u] = IF u = t THEN tree ELSE trees[u]
  OBVIOUS
<1>3. CloneShape'
  BY <1>1, <1>2 DEF CloneShape
<1>4. \A u \in DOMAIN trees : trees'[u].head = trees[u].head
  BY <1>2
<1>5. \A u \in DOMAIN trees \ {Main} : Held(u)' \subseteq {Own(u)}
  BY <1>2 DEF Held, Kept, BranchesHaveOwners
<1>6. BranchesHaveOwners'
  BY <1>1, <1>2, <1>4, <1>5 DEF BranchesHaveOwners, CloneShape
<1>7. IsolatedBranchHoldsOwnWork'
  BY <1>1 DEF IsolatedBranchHoldsOwnWork
<1> QED
  BY <1>1, <1>3, <1>6, <1>7

LEMMA EditStep ==
  ASSUME CloneInv, NEW r \in Runs, Edit(r)
  PROVE  CloneInv'
<1> DEFINE t == TreeOf(r)
           tree == [trees[t] EXCEPT !.unstaged = @ \cup {Own(r)}]
<1>1. pc[r] = "loop" /\ r \notin made /\ made' = made \cup {r} /\ pc' = pc
  BY DEF Edit
<1>2. /\ t \in DOMAIN trees /\ trees[t] \in Tree
      /\ r \in Isolated => t = r /\ r # Main /\ r \in DOMAIN base /\ trees[r].head = BranchOf[r]
      /\ r \notin Isolated => t = Main
  BY <1>1, RunHasItsTree DEF InItsTree
<1>3. Own(r) \in Edits
  BY RepositoryAssumption DEF Own, Edits, Authors
<1>4. /\ tree \in Tree /\ tree.head = trees[t].head /\ tree.staged = trees[t].staged
      /\ tree.unstaged = trees[t].unstaged \cup {Own(r)}
  BY <1>2, <1>3 DEF Tree
<1>5. trees' = [trees EXCEPT ![t] = tree] /\ UNCHANGED <<mode, branches, left, commit, holds, exit, base>>
  BY DEF Edit, Own, postflight
<1> HIDE DEF tree, t
<1>6. t # Main => Kept(tree) \subseteq {Own(t)}
  BY <1>2, <1>4 DEF CloneInv, BranchesHaveOwners, Held, Kept
<1>7. Rewritten(t, tree)
  BY <1>2, <1>4, <1>5, <1>6 DEF Rewritten
<1>8. DOMAIN trees' = DOMAIN trees /\ trees'[t] = tree /\ \A u \in DOMAIN trees \ {t} : trees'[u] = trees[u]
  BY <1>2, <1>5
<1>9. ASSUME NEW q \in Isolated PROVE RunInv(q)'
  <2>1. CASE q = r
    BY <1>1, <1>2, <1>4, <1>5, <1>8, <1>9, <2>1 DEF CloneInv, RunInv, EditIsKept, InItsTree
  <2>2. CASE q # r
    <3>1. q # t
      BY <1>2, <2>2, RepositoryAssumption DEF Isolated
    <3> QED
      BY <1>1, <1>5, <1>8, <2>2, <3>1 DEF CloneInv, RunInv, EditIsKept, InItsTree
  <2> QED
    BY <2>1, <2>2
<1>10. \A u \in DOMAIN trees : u \in DOMAIN trees' /\ Held(u) \subseteq Held(u)'
  BY <1>4, <1>8 DEF Held
<1>11. NobodysWorkIsLost'
  <2> SUFFICES ASSUME NEW a \in made'
               PROVE  \/ \E b \in DOMAIN branches : \E e \in branches[b] : e.by = a
                      \/ \E u \in DOMAIN trees' : \E e \in Held(u)' : e.by = a
                      \/ a \in Isolated /\ commit[a] = "error"
    BY <1>5 DEF NobodysWorkIsLost, Isolated
  <2>1. CASE a = r
    <3>1. Own(r) \in trees'[t].unstaged /\ Own(r).by = r
      BY <1>4, <1>8 DEF Own
    <3> QED
      BY <1>2, <1>8, <2>1, <3>1 DEF Held
  <2>2. CASE a \in made
    BY <1>10, <2>2 DEF CloneInv, NobodysWorkIsLost
  <2> QED
    BY <1>1, <2>1, <2>2
<1> QED
  <2>1. pc' \in [Runs -> Where] /\ made' \subseteq Authors
    BY <1>1 DEF CloneInv, CloneShape, Authors
  <2> QED
    BY <1>7, <1>9, <1>11, <2>1, TreeKept

LEMMA UserStep ==
  ASSUME CloneInv, NEW section \in Sections, NEW staging \in BOOLEAN, UserEdits(section, staging)
  PROVE  CloneInv'
<1> DEFINE edit == [by |-> User, in |-> section]
           tree == IF staging THEN [trees[Main] EXCEPT !.staged = @ \cup {edit}]
                   ELSE [trees[Main] EXCEPT !.unstaged = @ \cup {edit}]
<1>1. made' = made \cup {User} /\ pc' = pc /\ User \notin Runs
  BY RepositoryAssumption DEF UserEdits
<1>2. Main \in DOMAIN trees /\ trees[Main] \in Tree /\ edit \in Edits
  BY DEF CloneInv, CloneShape, Edits, Authors
<1>3. /\ tree \in Tree /\ tree.head = trees[Main].head
      /\ Kept(tree) = Kept(trees[Main]) \cup {edit}
  BY <1>2 DEF Tree, Kept
<1>4. trees' = [trees EXCEPT ![Main] = tree] /\ UNCHANGED <<mode, branches, left, commit, holds, exit, base>>
  BY DEF UserEdits, postflight
<1> HIDE DEF tree
<1>5. Rewritten(Main, tree)
  BY <1>2, <1>3, <1>4 DEF Rewritten
<1>6. DOMAIN trees' = DOMAIN trees /\ trees'[Main] = tree /\ \A u \in DOMAIN trees \ {Main} : trees'[u] = trees[u]
  BY <1>2, <1>4
<1>7. ASSUME NEW q \in Isolated PROVE RunInv(q)'
  <2>1. q # Main /\ q # User
    BY <1>1, RepositoryAssumption DEF Isolated
  <2> QED
    BY <1>1, <1>4, <1>6, <2>1 DEF CloneInv, RunInv, EditIsKept, InItsTree
<1>8. \A u \in DOMAIN trees : u \in DOMAIN trees' /\ Held(u) \subseteq Held(u)'
  BY <1>3, <1>6 DEF Held, Kept
<1>9. NobodysWorkIsLost'
  <2> SUFFICES ASSUME NEW a \in made'
               PROVE  \/ \E b \in DOMAIN branches : \E e \in branches[b] : e.by = a
                      \/ \E u \in DOMAIN trees' : \E e \in Held(u)' : e.by = a
                      \/ a \in Isolated /\ commit[a] = "error"
    BY <1>4 DEF NobodysWorkIsLost, Isolated
  <2>1. CASE a = User
    <3>1. edit \in Held(Main)' /\ edit.by = User
      BY <1>3, <1>6 DEF Held, Kept
    <3> QED
      BY <1>2, <1>6, <2>1, <3>1
  <2>2. CASE a \in made
    BY <1>8, <2>2 DEF CloneInv, NobodysWorkIsLost
  <2> QED
    BY <1>1, <2>1, <2>2
<1> QED
  <2>1. pc' \in [Runs -> Where] /\ made' \subseteq Authors
    BY <1>1 DEF CloneInv, CloneShape, Authors
  <2> QED
    BY <1>5, <1>7, <1>9, <2>1, TreeKept

LEMMA AddStep ==
  ASSUME CloneInv, NEW r \in Runs, Add(r)
  PROVE  CloneInv'
<1> DEFINE t == TreeOf(r)
           mine == In(trees[t].unstaged, Section[r])
           tree == [trees[t] EXCEPT !.unstaged = @ \ mine, !.staged = @ \cup mine]
<1>1. pc[r] = "add" /\ made' = made /\ pc' = [pc EXCEPT ![r] = "diff"]
  BY DEF Add, Goto
<1>2. /\ t \in DOMAIN trees /\ trees[t] \in Tree
      /\ r \in Isolated => t = r /\ r # Main /\ r \in DOMAIN base /\ trees[r].head = BranchOf[r]
      /\ r \notin Isolated => t = Main
  BY <1>1, RunHasItsTree DEF InItsTree
<1>3. mine \subseteq trees[t].unstaged
  BY DEF In
<1>4. /\ tree \in Tree /\ tree.head = trees[t].head
      /\ tree.staged = trees[t].staged \cup mine /\ Kept(tree) = Kept(trees[t])
  BY <1>2, <1>3 DEF Tree, Kept
<1>5. trees' = [trees EXCEPT ![t] = tree] /\ UNCHANGED <<mode, branches, left, commit, holds, exit, base>>
  BY <1>2 DEF Add, postflight
<1>6. Own(r) \in trees[t].unstaged => Own(r) \in tree.staged
  BY <1>4 DEF In, Own
<1> HIDE DEF tree, t, mine
<1>7. t # Main => Kept(tree) \subseteq {Own(t)}
  BY <1>2, <1>4 DEF CloneInv, BranchesHaveOwners, Held, Kept
<1>8. Rewritten(t, tree)
  BY <1>2, <1>4, <1>5, <1>7 DEF Rewritten
<1>9. DOMAIN trees' = DOMAIN trees /\ trees'[t] = tree /\ \A u \in DOMAIN trees \ {t} : trees'[u] = trees[u]
  BY <1>2, <1>5
<1>10. ASSUME NEW q \in Isolated PROVE RunInv(q)'
  <2>1. CASE q = r
    <3>1. pc'[r] = "diff" /\ RunInv(r)
      BY <1>1, <1>10, <2>1 DEF CloneInv, CloneShape
    <3> QED
      BY <1>1, <1>2, <1>5, <1>6, <1>9, <1>10, <2>1, <3>1 DEF RunInv, EditIsKept, InItsTree
  <2>2. CASE q # r
    <3>1. q # t /\ pc'[q] = pc[q] /\ RunInv(q)
      BY <1>1, <1>2, <1>10, <2>2, RepositoryAssumption DEF Isolated, CloneInv, CloneShape
    <3> QED
      BY <1>1, <1>5, <1>9, <3>1 DEF RunInv, EditIsKept, InItsTree
  <2> QED
    BY <2>1, <2>2
<1>11. \A u \in DOMAIN trees : u \in DOMAIN trees' /\ Held(u) \subseteq Held(u)'
  BY <1>4, <1>9 DEF Held, Kept
<1>12. NobodysWorkIsLost'
  BY <1>1, <1>5, <1>11, NothingIsLost DEF CloneInv
<1> QED
  <2>1. pc' \in [Runs -> Where] /\ made' \subseteq Authors
    BY <1>1 DEF CloneInv, CloneShape, Where
  <2> QED
    BY <1>8, <1>10, <1>12, <2>1, TreeKept

LEMMA TearDownStep ==
  ASSUME CloneInv, NEW r \in Runs, TearDown(r)
  PROVE  CloneInv'
<1>1. /\ pc[r] = "teardown" /\ pc' = [pc EXCEPT ![r] = "report"] /\ Isolated' = Isolated
      /\ UNCHANGED <<mode, branches, left, commit, holds, exit, base, made>>
  BY DEF TearDown, Goto, postflight, Isolated
<1>2. CASE UNCHANGED trees
  <2>1. Moved(r)
    BY <1>1, <1>2 DEF Moved, CloneInv, CloneShape, Where
  <2>2. r \in Isolated => RunInv(r)'
    BY <1>1, <1>2, <2>1 DEF Moved, CloneInv, CloneShape, RunInv, EditIsKept, InItsTree
  <2> QED
    BY <2>1, <2>2, MoveKept
<1>3. CASE r \in Isolated /\ trees' = [t \in DOMAIN trees \ {r} |-> trees[t]]
  <2>1. DOMAIN trees' = DOMAIN trees \ {r} /\ \A t \in DOMAIN trees' : trees'[t] = trees[t]
    BY <1>3
  <2>2. r # Main /\ Tree' = Tree
    BY <1>1, <1>3, RepositoryAssumption DEF Isolated, Tree
  <2>3. CloneShape'
    <3>1. trees' \in [DOMAIN trees' -> Tree]
      BY <1>3 DEF CloneInv, CloneShape
    <3> QED
      BY <1>1, <2>1, <2>2, <3>1 DEF CloneInv, CloneShape, Where
  <2>4. \A t \in DOMAIN trees' : Held(t)' = Held(t)
    BY <2>1 DEF Held
  <2>5. BranchesHaveOwners'
    BY <1>1, <2>1, <2>2, <2>4 DEF CloneInv, CloneShape, BranchesHaveOwners
  <2>6. ASSUME NEW q \in Isolated PROVE RunInv(q)'
    <3>1. RunInv(q)
      BY DEF CloneInv
    <3>2. CASE q = r
      <4>1. pc'[r] = "report"
        BY <1>1 DEF CloneInv, CloneShape
      <4> QED
        BY <1>1, <3>1, <3>2, <4>1 DEF RunInv, EditIsKept, InItsTree
    <3>3. CASE q # r
      <4>1. pc'[q] = pc[q] /\ (q \in DOMAIN trees => q \in DOMAIN trees' /\ trees'[q] = trees[q])
        BY <1>1, <2>1, <3>3
      <4>2. q \in made => (pc[q] \in InItsTree => q \in DOMAIN trees)
        BY <3>1 DEF RunInv
      <4> QED
        BY <1>1, <3>1, <4>1, <4>2 DEF RunInv, EditIsKept, InItsTree
    <3> QED
      BY <3>2, <3>3
  <2>7. IsolatedBranchHoldsOwnWork'
    BY <1>1 DEF CloneInv, IsolatedBranchHoldsOwnWork
  <2>8. NobodysWorkIsLost'
    <3> SUFFICES ASSUME NEW a \in made
                 PROVE  \/ \E b \in DOMAIN branches : \E e \in branches[b] : e.by = a
                        \/ \E t \in DOMAIN trees' : \E e \in Held(t)' : e.by = a
                        \/ a \in Isolated /\ commit[a] = "error"
      BY <1>1 DEF NobodysWorkIsLost
    <3>1. CASE a = r
      <4>1. commit[r] = "error" \/ Own(r) \in branches[BranchOf[r]]
        BY <1>1, <1>3, <3>1 DEF CloneInv, RunInv, EditIsKept
      <4>2. BranchOf[r] \in DOMAIN branches /\ Own(r).by = r
        BY <1>1, <1>3 DEF CloneInv, RunInv, InItsTree, BranchesHaveOwners, Own
      <4> QED
        BY <1>3, <3>1, <4>1, <4>2
    <3>2. CASE a # r
      <4>1. \A e \in Held(r) : r \in DOMAIN trees => e.by = r
        BY <2>2 DEF CloneInv, BranchesHaveOwners, Own
      <4> QED
        BY <2>1, <2>4, <3>2, <4>1 DEF CloneInv, NobodysWorkIsLost
    <3> QED
      BY <3>1, <3>2
  <2> QED
    BY <1>1, <2>3, <2>5, <2>6, <2>7, <2>8 DEF CloneInv
<1> QED
  BY <1>2, <1>3 DEF TearDown

LEMMA CommitStep ==
  ASSUME CloneInv, NEW r \in Runs, Commit(r)
  PROVE  CloneInv'
<1> DEFINE t == TreeOf(r)
           tree == [trees[t] EXCEPT !.staged = {}]
           b == trees[t].head
<1>1. /\ pc[r] = "commit" /\ made' = made /\ pc' = [pc EXCEPT ![r] = "sha"]
      /\ UNCHANGED <<mode, left, commit, holds, exit, base>> /\ Isolated' = Isolated
  BY DEF Commit, Goto, postflight, Isolated
<1>2. /\ t \in DOMAIN trees /\ trees[t] \in Tree /\ Main \in DOMAIN trees
      /\ r \in Isolated => t = r /\ r # Main /\ r \in DOMAIN base /\ b = BranchOf[r]
      /\ r \notin Isolated => t = Main /\ b = trees[Main].head
  BY <1>1, RunHasItsTree DEF InItsTree, CloneInv, CloneShape
<1>3. b \in DOMAIN branches /\ trees[t].staged \in SUBSET Edits
  BY <1>2 DEF Tree
<1>4. branches' = [branches EXCEPT ![b] = @ \cup trees[t].staged]
  BY DEF Commit
<1>5. trees' = [trees EXCEPT ![t] = tree]
  BY DEF Commit
<1>6. /\ tree \in Tree /\ tree.head = trees[t].head
      /\ tree.unstaged = trees[t].unstaged /\ tree.staged = {}
  BY <1>2 DEF Tree
<1> HIDE DEF tree, t, b
<1>7. /\ DOMAIN branches' = DOMAIN branches /\ branches'[b] = branches[b] \cup trees[t].staged
      /\ \A c \in DOMAIN branches \ {b} : branches'[c] = branches[c]
  BY <1>3, <1>4
<1>8. /\ DOMAIN trees' = DOMAIN trees /\ trees'[t] = tree
      /\ \A u \in DOMAIN trees \ {t} : trees'[u] = trees[u]
  BY <1>2, <1>5
<1>9. Tree' = Tree
  BY <1>7 DEF Tree
<1>10. CloneShape'
  <2>1. branches' \in [DOMAIN branches' -> SUBSET Edits]
    BY <1>3, <1>4 DEF CloneInv, CloneShape
  <2>2. trees' \in [DOMAIN trees' -> Tree]
    BY <1>2, <1>5, <1>6 DEF CloneInv, CloneShape
  <2> QED
    BY <1>1, <1>8, <1>9, <2>1, <2>2 DEF CloneInv, CloneShape, Where
<1>11. \A u \in DOMAIN trees : trees'[u].head = trees[u].head /\ Held(u)' \subseteq Held(u)
  BY <1>6, <1>8 DEF Held
<1>12. BranchesHaveOwners'
  BY <1>1, <1>2, <1>7, <1>8, <1>11 DEF CloneInv, BranchesHaveOwners
\* The branch is the run's own, or that of no isolated run.
<1>13. ASSUME NEW q \in Isolated \cap DOMAIN base, q # r PROVE BranchOf[q] # b
  BY <1>2, <1>13 DEF CloneInv, BranchesHaveOwners
<1>14. r \in Isolated => trees[t].staged \subseteq {Own(r)}
  BY <1>2 DEF CloneInv, BranchesHaveOwners, Held
<1>15. ASSUME NEW q \in Isolated PROVE RunInv(q)'
  <2>1. RunInv(q)
    BY DEF CloneInv
  <2>2. CASE q = r
    <3>1. pc'[r] = "sha" /\ commit[r] = "none"
      BY <1>1, <2>1, <2>2 DEF CloneInv, CloneShape, RunInv
    <3>2. r \in made => Own(r) \in branches'[BranchOf[r]]
      BY <1>1, <1>2, <1>7, <1>15, <2>1, <2>2 DEF RunInv, EditIsKept
    <3> QED
      BY <1>1, <1>2, <1>8, <1>15, <2>1, <2>2, <3>1, <3>2 DEF RunInv, EditIsKept, InItsTree
  <2>3. CASE q # r
    <3>1. q # t /\ pc'[q] = pc[q]
      BY <1>1, <1>2, <2>3, RepositoryAssumption DEF Isolated, CloneInv, CloneShape
    <3>2. q \in DOMAIN trees => trees'[q] = trees[q]
      BY <1>8, <3>1
    <3>3. q \in DOMAIN base => branches'[BranchOf[q]] = branches[BranchOf[q]]
      BY <1>7, <1>13, <2>3 DEF CloneInv, BranchesHaveOwners
    <3> QED
      BY <1>1, <1>8, <2>1, <3>1, <3>2, <3>3 DEF RunInv, EditIsKept, InItsTree
  <2> QED
    BY <2>2, <2>3
<1>16. IsolatedBranchHoldsOwnWork'
  <2> SUFFICES ASSUME NEW q \in Isolated \cap DOMAIN base
               PROVE  branches'[BranchOf[q]] \ base[q] \subseteq {Own(q)}
    BY <1>1 DEF IsolatedBranchHoldsOwnWork, Own
  <2>1. branches[BranchOf[q]] \ base[q] \subseteq {Own(q)}
    BY DEF CloneInv, IsolatedBranchHoldsOwnWork, Own
  <2>2. CASE q = r
    BY <1>2, <1>7, <1>14, <2>1, <2>2
  <2>3. CASE q # r
    BY <1>7, <1>13, <2>1, <2>3 DEF CloneInv, BranchesHaveOwners
  <2> QED
    BY <2>2, <2>3
<1>17. NobodysWorkIsLost'
  <2>1. \A c \in DOMAIN branches : c \in DOMAIN branches' /\ branches[c] \subseteq branches'[c]
    BY <1>7
  <2>2. ASSUME NEW u \in DOMAIN trees, NEW e \in Held(u)
        PROVE  \/ u \in DOMAIN trees' /\ e \in Held(u)'
               \/ \E c \in DOMAIN branches' : e \in branches'[c]
    <3>1. CASE u = t /\ e \in trees[t].staged
      BY <1>3, <1>7, <3>1
    <3>2. CASE u = t /\ e \in trees[t].unstaged
      BY <1>6, <1>8, <3>2 DEF Held
    <3>3. CASE u # t
      BY <1>8, <2>2, <3>3 DEF Held
    <3> QED
      BY <2>2, <3>1, <3>2, <3>3 DEF Held
  <2> QED
    BY <1>1, <2>1, <2>2, NothingIsLost DEF CloneInv
<1> QED
  BY <1>1, <1>10, <1>12, <1>15, <1>16, <1>17 DEF CloneInv

LEMMA CloneStep == CloneInv /\ [Next]_vars => CloneInv'
<1> SUFFICES ASSUME CloneInv, [Next]_vars PROVE CloneInv'
  OBVIOUS
<1>1. ASSUME NEW r \in Runs, RunStep(r) \/ Edit(r) \/ Kill(r) PROVE CloneInv'
  BY <1>1, MoveStep, BranchStep, EditStep, AddStep, CommitStep, TearDownStep DEF RunStep
<1>2. ASSUME NEW section \in Sections, NEW staging \in BOOLEAN, UserEdits(section, staging) PROVE CloneInv'
  BY <1>2, UserStep
<1>3. CASE UNCHANGED vars
  BY <1>3 DEF vars, postflight, CloneInv, CloneShape, Tree, BranchesHaveOwners, RunInv, EditIsKept,
     IsolatedBranchHoldsOwnWork, NobodysWorkIsLost, Held, Isolated
<1> QED
  BY <1>1, <1>2, <1>3 DEF Next

\* A dry run has no branch, no tree and nothing to commit.
DryInv == \A r \in Dry : pc[r] \in {"preflight", "configure", "index", "loop", "report", "exited", "killed"}

LEMMA DryInitial == Init \/ NoRuns => DryInv
  BY DEF Init, NoRuns, DryInv, Dry

LEMMA DryStep == DryInv /\ pc \in [Runs -> Where] /\ [Next]_vars => DryInv'
<1> SUFFICES ASSUME DryInv, pc \in [Runs -> Where], [Next]_vars PROVE DryInv'
  OBVIOUS
<1>1. Dry' = Dry
  BY DEF Next, RunStep, vars, UserEdits, PreflightPasses, PreflightRefuses, Configure, AddWorktree, CreateBranch,
     BranchFails, Settle, BuildIndex, Edit, LoopEnds, Add, Diff, Commit, ReadSha, CommitFails, TearDown,
     Report, Kill, Dry
<1>2. ASSUME NEW q \in Runs, RunStep(q) \/ Edit(q) \/ Kill(q) PROVE DryInv'
  <2>1. PICK where : pc' = [pc EXCEPT ![q] = where]
    BY <1>2 DEF RunStep, PreflightPasses, PreflightRefuses, Configure, AddWorktree, CreateBranch,
       BranchFails, Settle, BuildIndex, Edit, LoopEnds, Add, Diff, Commit, ReadSha, CommitFails, TearDown,
       Report, Kill, Goto, Exit
  <2>2. \A r \in Dry : r \in Runs /\ (r # q => pc'[r] = pc[r])
    BY <2>1 DEF Dry
  <2>3. q \in Dry => pc'[q] \in {"preflight", "configure", "index", "loop", "report", "exited", "killed"}
    BY <1>2 DEF RunStep, PreflightPasses, PreflightRefuses, Configure, AddWorktree, CreateBranch,
       BranchFails, Settle, BuildIndex, Edit, LoopEnds, Add, Diff, Commit, ReadSha, CommitFails, TearDown,
       Report, Kill, Goto, Exit, DryInv
  <2> QED
    BY <1>1, <2>2, <2>3 DEF DryInv
<1>3. CASE UNCHANGED vars \/ \E section \in Sections, staging \in BOOLEAN : UserEdits(section, staging)
  BY <1>1, <1>3 DEF vars, UserEdits, DryInv
<1> QED
  BY <1>2, <1>3 DEF Next

\* What a step of an isolated or of a dry run leaves as it was.
LEMMA IsolatedStep ==
  ASSUME CloneInv, DryInv, [Next]_vars, NEW r \in Isolated \cup Dry, pc'[r] # pc[r]
  PROVE  trees'[Main] = trees[Main] /\ (r \in Dry => branches' = branches /\ trees' = trees)
<1>1. r \in Runs /\ (r \in Isolated <=> r \notin Dry) /\ r # Main
  BY RepositoryAssumption DEF Isolated, Dry
<1>2. PICK q \in Runs : RunStep(q) \/ Kill(q)
  BY DEF Next, vars, postflight, UserEdits, Edit
<1>3. q = r
  <2>1. PICK where : pc' = [pc EXCEPT ![q] = where]
    BY <1>2 DEF RunStep, PreflightPasses, PreflightRefuses, Configure, AddWorktree, CreateBranch,
       BranchFails, Settle, BuildIndex, LoopEnds, Add, Diff, Commit, ReadSha, CommitFails, TearDown,
       Report, Kill, Goto, Exit
  <2> QED
    BY <1>1, <2>1 DEF CloneInv, CloneShape
<1>4. Main \in DOMAIN trees
  BY DEF CloneInv, CloneShape
<1>5. CASE UNCHANGED <<branches, trees>>
  BY <1>5
<1>6. CASE AddWorktree(r) \/ Add(r) \/ Commit(r) \/ TearDown(r)
  <2>1. r \in Isolated /\ r \notin Dry
    BY <1>1, <1>6 DEF AddWorktree, Add, Commit, TearDown, DryInv
  <2>2. TreeOf(r) # Main
    BY <1>1, <2>1 DEF TreeOf
  <2> QED
    BY <1>1, <1>4, <1>6, <2>1, <2>2 DEF AddWorktree, With, Add, Commit, TearDown
<1>7. CASE CreateBranch(r)
  BY <1>1, <1>7 DEF CreateBranch, DryInv
<1> QED
  BY <1>2, <1>3, <1>5, <1>6, <1>7
  DEF RunStep, PreflightPasses, PreflightRefuses, Configure, BranchFails, Settle, BuildIndex, LoopEnds,
      Diff, ReadSha, CommitFails, Report, Kill

----------------------------------------------------------------------------
(* A command, its readers and the caller that waits for them.              *)

LEMMA Taken ==
  ASSUME NEW S, NEW s \in Seq(S), NEW n \in 0..Len(s)
  PROVE  /\ SubSeq(s, 1, n) \in Seq(S) /\ Len(SubSeq(s, 1, n)) = n
         /\ \A i \in 1..n : SubSeq(s, 1, n)[i] = s[i]
         /\ SubSeq(s, n + 1, Len(s)) \in Seq(S) /\ Len(SubSeq(s, n + 1, Len(s))) = Len(s) - n
         /\ \A i \in 1..(Len(s) - n) : SubSeq(s, n + 1, Len(s))[i] = s[n + i]
<1>1. Len(s) \in Nat /\ \A i \in 1..Len(s) : s[i] \in S
  BY LenProperties, ElementOfSeq
<1>2. 1 \in Int /\ n \in Int /\ n + 1 \in Int /\ Len(s) \in Int /\ n <= Len(s) /\ n \in Nat
  BY <1>1
<1>3. /\ SubSeq(s, 1, n) \in Seq(S)
      /\ Len(SubSeq(s, 1, n)) = IF 1 <= n THEN n - 1 + 1 ELSE 0
      /\ \A i \in 1..(n - 1 + 1) : SubSeq(s, 1, n)[i] = s[1 + i - 1]
  <2>1. \A i \in 1..n : s[i] \in S
    BY <1>1, <1>2
  <2> QED
    BY <1>2, <2>1, SubSeqProperties
<1>4. /\ SubSeq(s, n + 1, Len(s)) \in Seq(S)
      /\ Len(SubSeq(s, n + 1, Len(s))) = IF n + 1 <= Len(s) THEN Len(s) - (n + 1) + 1 ELSE 0
      /\ \A i \in 1..(Len(s) - (n + 1) + 1) : SubSeq(s, n + 1, Len(s))[i] = s[(n + 1) + i - 1]
  <2>1. \A i \in (n + 1)..Len(s) : s[i] \in S
    BY <1>1, <1>2
  <2> QED
    BY <1>2, <2>1, SubSeqProperties
<1>5. Len(SubSeq(s, 1, n)) = n /\ Len(SubSeq(s, n + 1, Len(s))) = Len(s) - n
  BY <1>2, <1>3, <1>4
<1>6. \A i \in 1..n : SubSeq(s, 1, n)[i] = s[i]
  BY <1>2, <1>3
<1>7. \A i \in 1..(Len(s) - n) : SubSeq(s, n + 1, Len(s))[i] = s[n + i]
  BY <1>1, <1>2, <1>4
<1> QED
  BY <1>3, <1>4, <1>5, <1>6, <1>7

Chunks == Command!Streams \X Nat

\* One sequence is the end of another.
Ends(end, whole) ==
  /\ Len(end) <= Len(whole)
  /\ \A i \in 1..Len(end) : end[i] = whole[Len(whole) - Len(end) + i]

CommandShape ==
  /\ alive \subseteq {"shell", "job"} /\ reading \subseteq Command!Streams
  /\ truncated \in BOOLEAN /\ written \in Nat
  /\ caller \in {"start", "poll", "kill", "reap", "join", "done"}
  /\ outcome \in {"none", "refused", "ok", "error"}
  /\ pipe \in [Command!Streams -> Seq(Chunks)]
  /\ buffer \in Seq(Chunks) /\ captured \in Seq(Chunks)

\* A chunk that was written has been read or is in its pipe, behind all that was
\* read from it.
ChunksAreInOrder ==
  /\ written = Len(captured) + Len(pipe["out"]) + Len(pipe["err"])
  /\ \A i \in 1..Len(captured) : captured[i][2] < written
  /\ \A i, j \in 1..Len(captured) :
       i < j /\ captured[i][1] = captured[j][1] => captured[i][2] < captured[j][2]
  /\ \A s \in Command!Streams :
       /\ \A i \in 1..Len(pipe[s]) : pipe[s][i][1] = s /\ pipe[s][i][2] < written
       /\ \A i \in 1..Len(captured) : \A j \in 1..Len(pipe[s]) :
            captured[i][1] = s => captured[i][2] < pipe[s][j][2]
       /\ \A i, j \in 1..Len(pipe[s]) : i < j => pipe[s][i][2] < pipe[s][j][2]

BufferIsTheEnd ==
  /\ Len(buffer) <= Cap
  /\ Ends(buffer, captured)
  /\ truncated <=> Len(captured) > Len(buffer)

\* A pipe that nobody reads is empty, and nobody lives to write to it.
CommandInv ==
  /\ CommandShape
  /\ \A s \in Command!Streams : Len(pipe[s]) <= PipeSize
  /\ ChunksAreInOrder
  /\ BufferIsTheEnd
  /\ \A s \in Command!Streams \ reading : pipe[s] = <<>> /\ alive = {}
  /\ caller = "start" => reading = {}
  /\ caller \in {"start", "poll", "kill"} => outcome = "none"
  /\ outcome = "error" => alive = {} \/ detached

LEMMA CommandStarts ==
  ASSUME caller \in {"start", "done"}, alive = {}, written = 0, pipe = [s \in Command!Streams |-> <<>>],
         reading = {}, buffer = <<>>, truncated = FALSE, captured = <<>>, outcome = "none"
  PROVE  CommandInv
<1> USE CommandsAssumption DEF Command!CommandAssumption
<1>1. <<>> \in Seq(Chunks) /\ Len(<<>>) = 0
  OBVIOUS
<1>2. CommandShape
  BY <1>1 DEF CommandShape
<1>3. ChunksAreInOrder
  BY <1>1 DEF ChunksAreInOrder, Command!Streams
<1>4. BufferIsTheEnd
  BY <1>1 DEF BufferIsTheEnd, Ends
<1> QED
  BY <1>1, <1>2, <1>3, <1>4 DEF CommandInv

LEMMA CommandInitial == Command!Init => CommandInv
  BY CommandStarts DEF Command!Init

LEMMA CommandStandsStill == NoCommand => CommandInv
  BY CommandStarts DEF NoCommand

LEMMA WriteStep ==
  ASSUME CommandInv, Command!WriteChunk
  PROVE  CommandInv'
<1>1. PICK s \in Command!Streams : Len(pipe[s]) < PipeSize /\ pipe' = [pipe EXCEPT ![s] = Append(@, <<s, written>>)]
  BY DEF Command!WriteChunk
<1>2. /\ alive # {} /\ written' = written + 1
      /\ UNCHANGED <<refuses, caller, alive, detached, late, reading, buffer, truncated, captured, outcome>>
  BY DEF Command!WriteChunk
<1>3. written \in Nat /\ pipe[s] \in Seq(Chunks) /\ <<s, written>> \in Chunks /\ Len(pipe[s]) \in Nat
  BY DEF CommandInv, CommandShape, Chunks
<1>4. /\ Append(pipe[s], <<s, written>>) \in Seq(Chunks)
      /\ Len(Append(pipe[s], <<s, written>>)) = Len(pipe[s]) + 1
      /\ \A i \in 1..Len(pipe[s]) : Append(pipe[s], <<s, written>>)[i] = pipe[s][i]
      /\ Append(pipe[s], <<s, written>>)[Len(pipe[s]) + 1] = <<s, written>>
  BY <1>3, AppendProperties
<1>5. DOMAIN pipe = Command!Streams
  BY DEF CommandInv, CommandShape
<1>6. pipe'[s] = Append(pipe[s], <<s, written>>) /\ \A t \in Command!Streams \ {s} : pipe'[t] = pipe[t]
  BY <1>1, <1>5
<1>7. CommandShape'
  <2>1. pipe' \in [Command!Streams -> Seq(Chunks)]
    BY <1>1, <1>4 DEF CommandInv, CommandShape
  <2> QED
    BY <1>2, <2>1 DEF CommandInv, CommandShape
<1>8. ChunksAreInOrder'
  <2>1. written' = Len(captured) + Len(pipe'["out"]) + Len(pipe'["err"])
    <3>1. "out" \in Command!Streams /\ "err" \in Command!Streams /\ (s = "out" \/ s = "err")
      BY DEF Command!Streams
    <3>2. written = Len(captured) + Len(pipe["out"]) + Len(pipe["err"]) /\ Len(captured) \in Nat
          /\ Len(pipe["out"]) \in Nat /\ Len(pipe["err"]) \in Nat
      BY <3>1 DEF CommandInv, ChunksAreInOrder, CommandShape
    <3>5. written' = Len(captured) + Len(pipe["out"]) + Len(pipe["err"]) + 1
      BY <1>2, <3>2
    <3>6. \A a, b, c \in Nat : a + b + c + 1 = a + (b + 1) + c /\ a + b + c + 1 = a + b + (c + 1)
      OBVIOUS
    <3>3. CASE s = "out"
      <4>1. Len(pipe'["out"]) = Len(pipe["out"]) + 1 /\ Len(pipe'["err"]) = Len(pipe["err"])
        BY <1>4, <1>6, <3>1, <3>3
      <4>2. written' = Len(captured) + (Len(pipe["out"]) + 1) + Len(pipe["err"])
        BY <3>2, <3>5, <3>6
      <4> QED
        BY <4>1, <4>2
    <3>4. CASE s = "err"
      <4>1. Len(pipe'["err"]) = Len(pipe["err"]) + 1 /\ Len(pipe'["out"]) = Len(pipe["out"])
        BY <1>4, <1>6, <3>1, <3>4
      <4>2. written' = Len(captured) + Len(pipe["out"]) + (Len(pipe["err"]) + 1)
        BY <3>2, <3>5, <3>6
      <4> QED
        BY <4>1, <4>2
    <3> QED
      BY <3>1, <3>3, <3>4
  <2>2. \A i \in 1..Len(captured) : captured[i][2] < written /\ captured[i][2] \in Nat
    <3>1. captured \in Seq(Chunks) /\ \A i \in 1..Len(captured) : captured[i][2] < written
      BY DEF CommandInv, ChunksAreInOrder, CommandShape
    <3>2. \A i \in 1..Len(captured) : captured[i] \in Chunks
      BY <3>1, ElementOfSeq
    <3> QED
      BY <3>1, <3>2 DEF Chunks
  <2>3. \A i \in 1..Len(captured) : captured[i][2] < written'
    BY <1>2, <1>3, <2>2
  <2>4. ASSUME NEW t \in Command!Streams
        PROVE  /\ \A i \in 1..Len(pipe'[t]) : pipe'[t][i][1] = t /\ pipe'[t][i][2] < written'
               /\ \A i \in 1..Len(captured) : \A j \in 1..Len(pipe'[t]) :
                    captured[i][1] = t => captured[i][2] < pipe'[t][j][2]
               /\ \A i, j \in 1..Len(pipe'[t]) : i < j => pipe'[t][i][2] < pipe'[t][j][2]
    <3>1. /\ \A i \in 1..Len(pipe[t]) : pipe[t][i][1] = t /\ pipe[t][i][2] < written
          /\ \A i \in 1..Len(captured) : \A j \in 1..Len(pipe[t]) :
               captured[i][1] = t => captured[i][2] < pipe[t][j][2]
          /\ \A i, j \in 1..Len(pipe[t]) : i < j => pipe[t][i][2] < pipe[t][j][2]
      BY DEF CommandInv, ChunksAreInOrder
    <3>2. \A i \in 1..Len(pipe[t]) : pipe[t][i][2] \in Nat
      BY SMTT(30) DEF CommandInv, CommandShape, Chunks
    <3>3. CASE t = s
      <4>1. \A i \in 1..Len(pipe'[t]) : i \in 1..Len(pipe[s]) \/ i = Len(pipe[s]) + 1
        BY <1>3, <1>4, <1>6, <3>3
      <4>2. \A i \in 1..Len(pipe[s]) : pipe'[t][i] = pipe[s][i]
        BY <1>4, <1>6, <3>3
      <4>3. pipe'[t][Len(pipe[s]) + 1][1] = s /\ pipe'[t][Len(pipe[s]) + 1][2] = written
        BY <1>4, <1>6, <3>3
      <4>4. \A i \in 1..Len(pipe'[t]) : pipe'[t][i][1] = t /\ pipe'[t][i][2] < written'
        BY <1>2, <1>3, <3>1, <3>2, <3>3, <4>1, <4>2, <4>3, SMTT(30)
      <4>5. \A i \in 1..Len(captured) : \A j \in 1..Len(pipe'[t]) :
              captured[i][1] = t => captured[i][2] < pipe'[t][j][2]
        BY <2>2, <3>1, <3>3, <4>1, <4>2, <4>3
      <4>6. \A i, j \in 1..Len(pipe'[t]) : i < j => pipe'[t][i][2] < pipe'[t][j][2]
        <5> SUFFICES ASSUME NEW i \in 1..Len(pipe'[t]), NEW j \in 1..Len(pipe'[t]), i < j
                     PROVE  pipe'[t][i][2] < pipe'[t][j][2]
          OBVIOUS
        <5>1. i \in 1..Len(pipe[s])
          BY <1>3, <1>4, <1>6, <3>3
        <5> QED
          BY <3>1, <3>3, <4>1, <4>2, <4>3, <5>1
      <4> QED
        BY <4>4, <4>5, <4>6
    <3>4. CASE t # s
      <4>1. pipe'[t] = pipe[t]
        BY <1>6, <3>4
      <4>2. \A i \in 1..Len(pipe[t]) : pipe[t][i][2] < written'
        BY <1>2, <1>3, <3>1, <3>2
      <4> QED
        BY <3>1, <4>1, <4>2
    <3> QED
      BY <3>3, <3>4
  <2> QED
    BY <1>2, <2>1, <2>3, <2>4 DEF CommandInv, ChunksAreInOrder
<1>9. BufferIsTheEnd'
  BY <1>2 DEF CommandInv, BufferIsTheEnd, Ends
<1>10. \A t \in Command!Streams : Len(pipe'[t]) <= PipeSize
  <2>1. Len(pipe'[s]) <= PipeSize
    BY <1>1, <1>3, <1>4, <1>6, CommandsAssumption DEF Command!CommandAssumption
  <2> QED
    BY <1>6, <2>1 DEF CommandInv
<1> QED
  BY <1>2, <1>7, <1>8, <1>9, <1>10 DEF CommandInv

LEMMA KeepLastIsTheEnd ==
  ASSUME NEW s \in Seq(Chunks)
  PROVE  /\ Command!KeepLast(s) \in Seq(Chunks) /\ Len(Command!KeepLast(s)) <= Cap
         /\ Ends(Command!KeepLast(s), s)
         /\ Len(Command!KeepLast(s)) = Len(s) <=> ~(Len(s) > Cap)
<1> DEFINE n == Len(s) - Cap
<1>1. Cap \in Nat /\ Len(s) \in Nat
  BY CommandsAssumption DEF Command!CommandAssumption
<1>2. CASE Len(s) > Cap
  <2>1. Command!KeepLast(s) = SubSeq(s, n + 1, Len(s)) /\ n \in 0..Len(s) /\ Len(s) - n = Cap
    BY <1>1, <1>2 DEF Command!KeepLast
  <2> HIDE DEF n
  <2>2. /\ Command!KeepLast(s) \in Seq(Chunks) /\ Len(Command!KeepLast(s)) = Cap
        /\ \A i \in 1..Cap : Command!KeepLast(s)[i] = s[n + i]
    BY <2>1, Taken
  <2>3. n = Len(s) - Cap
    BY <1>1, <2>1
  <2> QED
    BY <1>1, <1>2, <2>2, <2>3 DEF Ends
<1>3. CASE ~(Len(s) > Cap)
  <2>1. Command!KeepLast(s) = s
    BY <1>3 DEF Command!KeepLast
  <2> QED
    BY <1>1, <1>3, <2>1 DEF Ends
<1> QED
  BY <1>2, <1>3

\* What is the end of the end and more is the end.
LEMMA EndOfMore ==
  ASSUME NEW end \in Seq(Chunks), NEW whole \in Seq(Chunks), NEW more \in Seq(Chunks), Ends(end, whole)
  PROVE  Ends(Command!KeepLast(end \o more), whole \o more)
<1> DEFINE pushed == end \o more
           last == Command!KeepLast(pushed)
           all2 == whole \o more
<1>1. /\ pushed \in Seq(Chunks) /\ Len(pushed) = Len(end) + Len(more)
      /\ \A i \in 1..(Len(end) + Len(more)) :
           pushed[i] = IF i <= Len(end) THEN end[i] ELSE more[i - Len(end)]
  BY ConcatProperties
<1>2. /\ all2 \in Seq(Chunks) /\ Len(all2) = Len(whole) + Len(more)
      /\ \A i \in 1..(Len(whole) + Len(more)) :
           all2[i] = IF i <= Len(whole) THEN whole[i] ELSE more[i - Len(whole)]
  BY ConcatProperties
<1>3. last \in Seq(Chunks) /\ Ends(last, pushed)
  BY <1>1, KeepLastIsTheEnd
<1> HIDE DEF pushed, last, all2
<1>4. Len(end) \in Nat /\ Len(whole) \in Nat /\ Len(more) \in Nat /\ Len(last) \in Nat /\ Len(end) <= Len(whole)
  BY <1>3 DEF Ends
<1>5. Len(last) <= Len(all2)
  BY <1>1, <1>2, <1>3, <1>4 DEF Ends
<1>6. ASSUME NEW i \in 1..Len(last) PROVE last[i] = all2[Len(all2) - Len(last) + i]
  <2> DEFINE k == Len(pushed) - Len(last) + i
             l == Len(all2) - Len(last) + i
  <2>1. k \in 1..(Len(end) + Len(more)) /\ l = Len(whole) - Len(end) + k /\ l \in 1..(Len(whole) + Len(more))
    BY <1>1, <1>2, <1>3, <1>4, <1>5 DEF Ends
  <2>2. last[i] = pushed[k]
    BY <1>3 DEF Ends
  <2> HIDE DEF k, l
  <2>3. CASE k <= Len(end)
    <3>1. l <= Len(whole) /\ k \in 1..Len(end)
      BY <1>4, <2>1, <2>3
    <3>2. pushed[k] = end[k] /\ all2[l] = whole[l]
      BY <1>1, <1>2, <2>1, <2>3, <3>1
    <3>3. end[k] = whole[l]
      BY <2>1, <3>1 DEF Ends
    <3> QED
      BY <2>2, <3>2, <3>3 DEF l
  <2>4. CASE ~(k <= Len(end))
    <3>1. ~(l <= Len(whole)) /\ k - Len(end) = l - Len(whole)
      BY <1>4, <2>1, <2>4
    <3>2. pushed[k] = more[k - Len(end)] /\ all2[l] = more[l - Len(whole)]
      BY <1>1, <1>2, <2>1, <2>4, <3>1
    <3> QED
      BY <2>2, <3>1, <3>2 DEF l
  <2> QED
    BY <2>3, <2>4
<1>7. Ends(last, all2)
  BY <1>5, <1>6 DEF Ends
<1> QED
  BY <1>7 DEF last, all2, pushed

LEMMA ReadStep ==
  ASSUME CommandInv, NEW s \in Command!Streams, Command!ReadChunk(s)
  PROVE  CommandInv'
<1>1. PICK n \in 1..Len(pipe[s]) :
        /\ pipe' = [pipe EXCEPT ![s] = SubSeq(@, n + 1, Len(@))]
        /\ buffer' = Command!KeepLast(buffer \o SubSeq(pipe[s], 1, n))
        /\ truncated' = (truncated \/ Len(buffer \o SubSeq(pipe[s], 1, n)) > Cap)
        /\ captured' = captured \o SubSeq(pipe[s], 1, n)
  BY DEF Command!ReadChunk
<1>2. s \in reading /\ UNCHANGED <<refuses, caller, alive, detached, late, written, reading, outcome>>
  BY DEF Command!ReadChunk
<1> DEFINE x == SubSeq(pipe[s], 1, n)
           rest == SubSeq(pipe[s], n + 1, Len(pipe[s]))
           L == Len(pipe[s])
<1>3. /\ written \in Nat /\ pipe[s] \in Seq(Chunks) /\ L \in Nat /\ n \in 0..L /\ Cap \in Nat
      /\ captured \in Seq(Chunks) /\ buffer \in Seq(Chunks) /\ Len(captured) \in Nat /\ Len(buffer) \in Nat
  BY CommandsAssumption DEF CommandInv, CommandShape, Command!CommandAssumption
<1>4. /\ x \in Seq(Chunks) /\ Len(x) = n /\ \A i \in 1..n : x[i] = pipe[s][i]
      /\ rest \in Seq(Chunks) /\ Len(rest) = L - n /\ \A i \in 1..(L - n) : rest[i] = pipe[s][n + i]
  BY <1>3, Taken
<1> HIDE DEF x, rest
<1>5. DOMAIN pipe = Command!Streams
  BY DEF CommandInv, CommandShape
<1>6. pipe'[s] = rest /\ \A t \in Command!Streams \ {s} : pipe'[t] = pipe[t]
  BY <1>1, <1>5 DEF rest
<1>7. /\ captured' \in Seq(Chunks) /\ Len(captured') = Len(captured) + n
      /\ \A i \in 1..(Len(captured) + n) :
           captured'[i] = IF i <= Len(captured) THEN captured[i] ELSE x[i - Len(captured)]
  <2>1. captured' = captured \o x
    BY <1>1 DEF x
  <2>2. captured \in Seq(Chunks) /\ x \in Seq(Chunks) /\ Len(x) = n
    BY <1>3, <1>4
  <2>3. /\ captured \o x \in Seq(Chunks) /\ Len(captured \o x) = Len(captured) + Len(x)
        /\ \A i \in 1..(Len(captured) + Len(x)) :
             (captured \o x)[i] = IF i <= Len(captured) THEN captured[i] ELSE x[i - Len(captured)]
    BY <2>2, ConcatProperties, Zenon
  <2> QED
    BY <2>1, <2>2, <2>3
<1>8. CommandShape'
  <2>1. pipe' \in [Command!Streams -> Seq(Chunks)]
    BY <1>1, <1>4 DEF CommandInv, CommandShape, rest
  <2>2. buffer' \in Seq(Chunks)
    BY <1>1, <1>3, <1>4, KeepLastIsTheEnd, ConcatProperties DEF x
  <2>3. truncated' \in BOOLEAN
    BY <1>1 DEF CommandInv, CommandShape
  <2> QED
    BY <1>2, <1>7, <2>1, <2>2, <2>3 DEF CommandInv, CommandShape
<1>9. ChunksAreInOrder'
  <2>1. written' = Len(captured') + Len(pipe'["out"]) + Len(pipe'["err"])
    <3>1. "out" \in Command!Streams /\ "err" \in Command!Streams /\ (s = "out" \/ s = "err")
      BY DEF Command!Streams
    <3>2. written = Len(captured) + Len(pipe["out"]) + Len(pipe["err"]) /\ Len(captured) \in Nat
          /\ Len(pipe["out"]) \in Nat /\ Len(pipe["err"]) \in Nat
      BY <3>1 DEF CommandInv, ChunksAreInOrder, CommandShape
    <3>3. /\ \A a, b, c \in Nat : \A k \in 1..b : a + b + c = (a + k) + (b - k) + c
          /\ \A a, b, c \in Nat : \A k \in 1..c : a + b + c = (a + k) + b + (c - k)
      OBVIOUS
    <3>4. CASE s = "out"
      <4>1. Len(pipe'["out"]) = Len(pipe["out"]) - n /\ Len(pipe'["err"]) = Len(pipe["err"])
        BY <1>4, <1>6, <3>1, <3>4
      <4>2. written = (Len(captured) + n) + (Len(pipe["out"]) - n) + Len(pipe["err"])
        BY <3>2, <3>3, <3>4
      <4> QED
        BY <1>2, <1>7, <4>1, <4>2
    <3>5. CASE s = "err"
      <4>1. Len(pipe'["err"]) = Len(pipe["err"]) - n /\ Len(pipe'["out"]) = Len(pipe["out"])
        BY <1>4, <1>6, <3>1, <3>5
      <4>2. n \in 1..Len(pipe["err"])
        BY <3>5
      <4>3. written = (Len(captured) + n) + Len(pipe["out"]) + (Len(pipe["err"]) - n)
        BY <3>2, <3>3, <4>2
      <4> QED
        BY <1>2, <1>7, <4>1, <4>3
    <3> QED
      BY <3>1, <3>4, <3>5
  <2>2. ASSUME NEW t \in Command!Streams
        PROVE  /\ \A i \in 1..Len(pipe[t]) : pipe[t][i][1] = t /\ pipe[t][i][2] < written
               /\ \A i \in 1..Len(captured) : \A j \in 1..Len(pipe[t]) :
                    captured[i][1] = t => captured[i][2] < pipe[t][j][2]
               /\ \A i, j \in 1..Len(pipe[t]) : i < j => pipe[t][i][2] < pipe[t][j][2]
    BY DEF CommandInv, ChunksAreInOrder
  <2>3. /\ \A i \in 1..Len(captured) : captured[i][2] < written
        /\ \A i, j \in 1..Len(captured) :
             i < j /\ captured[i][1] = captured[j][1] => captured[i][2] < captured[j][2]
    BY DEF CommandInv, ChunksAreInOrder
  \* Every chunk read so far was before, or is one of those read now.
  <2>4. ASSUME NEW i \in 1..Len(captured')
        PROVE  \/ i \in 1..Len(captured) /\ captured'[i] = captured[i]
               \/ /\ i \notin 1..Len(captured) /\ i - Len(captured) \in 1..n
                  /\ captured'[i] = pipe[s][i - Len(captured)]
    <3>1. CASE i <= Len(captured)
      BY <1>3, <1>7, <3>1
    <3>2. CASE ~(i <= Len(captured))
      <4>1. i - Len(captured) \in 1..n /\ i \in 1..(Len(captured) + n) /\ i \notin 1..Len(captured)
        BY <1>3, <1>7, <3>2
      <4>2. captured'[i] = x[i - Len(captured)]
        BY <1>7, <3>2, <4>1
      <4> QED
        BY <1>4, <4>1, <4>2
    <3> QED
      BY <3>1, <3>2
  <2>5. \A k \in 1..n : k \in 1..L /\ pipe[s][k][1] = s /\ pipe[s][k][2] < written
    BY <1>3, <2>2
  <2>6. \A i \in 1..Len(captured') : captured'[i][2] < written'
    BY <1>2, <2>3, <2>4, <2>5
  <2>7. ASSUME NEW i \in 1..Len(captured'), NEW j \in 1..Len(captured'), i < j, captured'[i][1] = captured'[j][1]
        PROVE  captured'[i][2] < captured'[j][2]
    <3>1. CASE j \in 1..Len(captured)
      <4>1. i \in 1..Len(captured)
        BY <1>3, <1>7, <2>7, <3>1
      <4> QED
        BY <2>3, <2>4, <2>7, <3>1, <4>1
    <3>2. CASE j \notin 1..Len(captured)
      <4>1. j - Len(captured) \in 1..n /\ captured'[j] = pipe[s][j - Len(captured)]
        BY <2>4, <3>2
      <4>2. CASE i \in 1..Len(captured)
        <5>1. captured'[i] = captured[i] /\ captured[i][1] = s
          BY <2>4, <2>5, <2>7, <4>1, <4>2
        <5>2. captured[i][2] < pipe[s][j - Len(captured)][2]
          BY <2>2, <2>5, <4>1, <4>2, <5>1
        <5> QED
          BY <4>1, <5>1, <5>2
      <4>3. CASE i \notin 1..Len(captured)
        <5>1. i - Len(captured) \in 1..n /\ captured'[i] = pipe[s][i - Len(captured)]
          BY <2>4, <4>3
        <5>2. i - Len(captured) < j - Len(captured)
          BY <1>3, <1>7, <2>7
        <5>3. pipe[s][i - Len(captured)][2] < pipe[s][j - Len(captured)][2]
          BY <2>2, <2>5, <4>1, <5>1, <5>2
        <5> QED
          BY <4>1, <5>1, <5>3
      <4> QED
        BY <4>2, <4>3
    <3> QED
      BY <3>1, <3>2
  <2>8. ASSUME NEW t \in Command!Streams
        PROVE  /\ \A i \in 1..Len(pipe'[t]) : pipe'[t][i][1] = t /\ pipe'[t][i][2] < written'
               /\ \A i \in 1..Len(captured') : \A j \in 1..Len(pipe'[t]) :
                    captured'[i][1] = t => captured'[i][2] < pipe'[t][j][2]
               /\ \A i, j \in 1..Len(pipe'[t]) : i < j => pipe'[t][i][2] < pipe'[t][j][2]
    <3>1. CASE t = s
      <4>1. \A j \in 1..Len(pipe'[t]) : n + j \in 1..L /\ pipe'[t][j] = pipe[s][n + j]
        BY <1>3, <1>4, <1>6, <3>1, SMTT(30)
      <4>2. \A i \in 1..Len(pipe'[t]) : pipe'[t][i][1] = t /\ pipe'[t][i][2] < written'
        BY <1>2, <2>2, <3>1, <4>1, SMTT(30)
      <4>3. ASSUME NEW i \in 1..Len(captured'), NEW j \in 1..Len(pipe'[t]), captured'[i][1] = t
            PROVE  captured'[i][2] < pipe'[t][j][2]
        <5>1. n + j \in 1..L /\ pipe'[t][j] = pipe[s][n + j]
          BY <4>1
        <5>2. CASE i \in 1..Len(captured)
          <6>1. captured'[i] = captured[i]
            BY <2>4, <5>2
          <6> QED
            BY <2>2, <3>1, <4>3, <5>1, <5>2, <6>1
        <5>3. CASE i \notin 1..Len(captured)
          <6>1. i - Len(captured) \in 1..n /\ captured'[i] = pipe[s][i - Len(captured)]
            BY <2>4, <5>3
          <6>2. i - Len(captured) < n + j /\ i - Len(captured) \in 1..L
            BY <1>3, <1>4, <1>6, <2>5, <3>1, <6>1, SMTT(30)
          <6> QED
            BY <2>2, <5>1, <6>1, <6>2
        <5> QED
          BY <5>2, <5>3
      <4>4. ASSUME NEW i \in 1..Len(pipe'[t]), NEW j \in 1..Len(pipe'[t]), i < j
            PROVE  pipe'[t][i][2] < pipe'[t][j][2]
        <5>1. n + i < n + j
          BY <1>3, <1>4, <1>6, <3>1, <4>4
        <5> QED
          BY <2>2, <4>1, <5>1
      <4> QED
        BY <4>2, <4>3, <4>4
    <3>2. CASE t # s
      <4>1. pipe'[t] = pipe[t]
        BY <1>6, <3>2
      <4>2. ASSUME NEW i \in 1..Len(captured'), NEW j \in 1..Len(pipe[t]), captured'[i][1] = t
            PROVE  captured'[i][2] < pipe[t][j][2]
        <5>1. i \in 1..Len(captured) /\ captured'[i] = captured[i]
          BY <2>4, <2>5, <3>2, <4>2
        <5> QED
          BY <2>2, <4>2, <5>1
      <4> QED
        BY <1>2, <2>2, <4>1, <4>2
    <3> QED
      BY <3>1, <3>2
  <2> QED
    BY <2>1, <2>6, <2>7, <2>8 DEF ChunksAreInOrder
<1>10. BufferIsTheEnd'
  <2>1. /\ buffer \o x \in Seq(Chunks) /\ Len(buffer \o x) = Len(buffer) + n
    BY <1>3, <1>4, ConcatProperties
  <2>2. buffer' = Command!KeepLast(buffer \o x) /\ captured' = captured \o x
        /\ truncated' = (truncated \/ Len(buffer \o x) > Cap)
    BY <1>1 DEF x
  <2>3. Len(buffer') <= Cap /\ Ends(buffer', buffer \o x)
        /\ (Len(buffer') = Len(buffer) + n <=> ~(Len(buffer) + n > Cap))
    BY <2>1, <2>2, KeepLastIsTheEnd
  <2>4. Ends(buffer, captured) /\ (truncated <=> Len(captured) > Len(buffer))
    BY DEF CommandInv, BufferIsTheEnd
  <2>5. Ends(buffer', captured')
    BY <1>3, <1>4, <2>2, <2>4, EndOfMore
  <2>6. Len(buffer') \in Nat /\ Len(buffer') <= Len(buffer) + n
    BY <1>8, <2>1, <2>3 DEF CommandShape, Ends
  <2>7. truncated' <=> Len(captured') > Len(buffer')
    <3>1. truncated' <=> truncated \/ Len(buffer) + n > Cap
      BY <2>1, <2>2
    <3>2. Len(captured) >= Len(buffer)
      BY <1>3, <2>4 DEF Ends
    <3>3. CASE Len(buffer) + n > Cap
      <4>1. Len(buffer') < Len(buffer) + n
        BY <1>3, <2>3, <2>6, <3>3
      <4> QED
        BY <1>3, <1>7, <2>6, <3>1, <3>2, <3>3, <4>1
    <3>4. CASE ~(Len(buffer) + n > Cap)
      <4>1. Len(buffer') = Len(buffer) + n
        BY <2>3, <3>4
      <4> QED
        BY <1>3, <1>7, <2>4, <3>1, <3>4, <4>1
    <3> QED
      BY <3>3, <3>4
  <2> QED
    BY <2>3, <2>5, <2>7 DEF BufferIsTheEnd
<1>11. \A t \in Command!Streams : Len(pipe'[t]) <= PipeSize
  <2>1. Len(pipe[s]) <= PipeSize /\ PipeSize \in Nat
    BY CommandsAssumption DEF CommandInv, Command!CommandAssumption
  <2>2. Len(pipe'[s]) <= PipeSize
    BY <1>3, <1>4, <1>6, <2>1
  <2> QED
    BY <1>6, <2>2 DEF CommandInv
<1> QED
  <2>1. \A t \in Command!Streams \ reading' : pipe'[t] = <<>> /\ alive' = {}
    BY <1>2, <1>6 DEF CommandInv
  <2> QED
    BY <1>2, <1>8, <1>9, <1>10, <1>11, <2>1 DEF CommandInv

LEMMA CommandStep == CommandInv /\ [Command!Next]_commandVars => CommandInv'
<1> SUFFICES ASSUME CommandInv, [Command!Next]_commandVars PROVE CommandInv'
  OBVIOUS
<1>1. ASSUME UNCHANGED <<written, pipe, buffer, truncated, captured>>,
             alive' \subseteq {"shell", "job"}, reading' \subseteq Command!Streams,
             caller' \in {"start", "poll", "kill", "reap", "join", "done"},
             outcome' \in {"none", "refused", "ok", "error"},
             \A s \in Command!Streams \ reading' : pipe[s] = <<>> /\ alive' = {},
             caller' = "start" => reading' = {},
             caller' \in {"start", "poll", "kill"} => outcome' = "none",
             outcome' = "error" => alive' = {} \/ detached'
      PROVE  CommandInv'
  <2>1. CommandShape'
    BY <1>1 DEF CommandInv, CommandShape
  <2>2. ChunksAreInOrder' /\ BufferIsTheEnd'
    BY <1>1 DEF CommandInv, ChunksAreInOrder, BufferIsTheEnd, Ends
  <2> QED
    BY <1>1, <2>1, <2>2 DEF CommandInv
<1>2. CASE Command!WriteChunk
  BY <1>2, WriteStep
<1>3. CASE \E s \in Command!Streams : Command!ReadChunk(s)
  BY <1>3, ReadStep
<1> USE DEF CommandInv, CommandShape
<1>4. CASE Command!StartJob
  BY <1>1, <1>4 DEF Command!StartJob
<1>5. CASE Command!ShellExits
  BY <1>1, <1>5 DEF Command!ShellExits
<1>6. CASE Command!JobExits
  BY <1>1, <1>6 DEF Command!JobExits
<1>7. CASE \E s \in Command!Streams : Command!ReaderEnds(s)
  BY <1>1, <1>7 DEF Command!ReaderEnds
<1>8. CASE Command!DeadlinePasses
  BY <1>1, <1>8 DEF Command!DeadlinePasses
<1>9. CASE Command!Refuse
  BY <1>1, <1>9 DEF Command!Refuse
<1>10. CASE Command!SpawnFails
  <2>1. alive = {}
    BY <1>10 DEF Command!SpawnFails, Command!Streams
  <2> QED
    BY <1>1, <1>10, <2>1 DEF Command!SpawnFails
<1>11. CASE Command!Spawn
  BY <1>1, <1>11 DEF Command!Spawn
<1>12. CASE Command!PollExited
  BY <1>1, <1>12 DEF Command!PollExited
<1>13. CASE Command!PollTimedOut
  BY <1>1, <1>13 DEF Command!PollTimedOut
<1>14. CASE Command!KillTree
  BY <1>1, <1>14 DEF Command!KillTree
<1>15. CASE Command!Reap
  BY <1>1, <1>15 DEF Command!Reap
<1>16. CASE Command!Join
  BY <1>1, <1>16 DEF Command!Join
<1>17. CASE UNCHANGED commandVars
  BY <1>1, <1>17 DEF commandVars
<1> QED
  BY <1>2, <1>3, <1>4, <1>5, <1>6, <1>7, <1>8, <1>9, <1>10, <1>11, <1>12, <1>13, <1>14, <1>15, <1>16, <1>17
  DEF Command!Next, Command!Caller, Command!Reader

LEMMA OutputKept == CommandInv => OutputIsKept
<1> SUFFICES ASSUME CommandInv PROVE OutputIsKept
  OBVIOUS
<1>1. Command!TypeOK
  BY DEF CommandInv, CommandShape, BufferIsTheEnd, Command!TypeOK
<1>2. Command!TailIsKept
  <2> DEFINE n == Len(captured) - Len(buffer)
  <2>1. captured \in Seq(Chunks) /\ buffer \in Seq(Chunks) /\ Ends(buffer, captured)
        /\ Len(captured) \in Nat /\ Len(buffer) \in Nat
    BY DEF CommandInv, CommandShape, BufferIsTheEnd
  <2>2. n \in 0..Len(captured) /\ Len(captured) - n = Len(buffer)
    BY <2>1 DEF Ends
  <2> HIDE DEF n
  <2>3. /\ SubSeq(captured, n + 1, Len(captured)) \in Seq(Chunks)
        /\ Len(SubSeq(captured, n + 1, Len(captured))) = Len(buffer)
        /\ \A i \in 1..Len(buffer) : SubSeq(captured, n + 1, Len(captured))[i] = captured[n + i]
    BY <2>1, <2>2, Taken
  <2>4. \A i \in 1..Len(buffer) : buffer[i] = captured[n + i]
    BY <2>1 DEF Ends, n
  <2>5. buffer = SubSeq(captured, n + 1, Len(captured))
    BY <2>1, <2>3, <2>4, SeqEqual
  <2> QED
    BY <2>1, <2>5 DEF CommandInv, BufferIsTheEnd, ChunksAreInOrder, Ends, Command!TailIsKept, n
<1>3. Command!NothingIsLost
  <2> SUFFICES ASSUME reading = {} PROVE Len(captured) = written
    BY DEF Command!NothingIsLost
  <2>1. pipe["out"] = <<>> /\ pipe["err"] = <<>>
    BY DEF CommandInv, Command!Streams
  <2>2. Len(captured) \in Nat /\ written = Len(captured) + 0 + 0
    BY <2>1 DEF CommandInv, CommandShape, ChunksAreInOrder
  <2> QED
    BY <2>2
<1>4. Command!TreeIsDead
  BY DEF CommandInv, Command!TreeIsDead
<1> QED
  BY <1>1, <1>2, <1>3, <1>4 DEF OutputIsKept

----------------------------------------------------------------------------
(* Requests.                                                               *)

LEMMA Mapped ==
  ASSUME NEW S, NEW n \in Nat, NEW f \in [1..n -> S]
  PROVE  f \in Seq(S) /\ Len(f) = n
<1>1. f \in Seq(S)
  BY SeqDef
<1> QED
  BY <1>1, LenProperties

\* What a run's record may hold.
Messages ==
  {Conversation!Said("system", "long"), Conversation!Said("user", "short")}
  \cup {[Conversation!Said("assistant", t.text) EXCEPT !.calls = t.calls] : t \in Turns}
  \cup UNION {{[Conversation!Said("tool", t.results[i]) EXCEPT !.id = t.calls[i].id] : i \in 1..Len(t.calls)} : t \in Turns}

Begin(n) == [i \in 1..n |-> history[i]]

\* The request about the first n messages.
Sent(n) ==
  [messages |-> Conversation!Elide(Begin(n)),
   marks |-> IF explicit THEN Conversation!Breakpoints(Conversation!Elide(Begin(n))) ELSE {}]

\* Only the model's calls have results, and the last request was made of a
\* beginning of the record.
RequestInv ==
  /\ keep \in Keeps /\ explicit \in BOOLEAN
  /\ history \in Seq(Messages) /\ Len(history) >= 2 /\ history[2] = Conversation!Said("user", "short")
  /\ \A i \in 1..Len(history) :
       history[i].role = "tool" =>
         \E h \in 1..(i - 1) : \E j \in DOMAIN history[h].calls : history[h].calls[j].id = history[i].id
  /\ wire = [messages |-> <<>>, marks |-> {}] \/ \E n \in 2..Len(history) : wire = Sent(n)

LEMMA MessageFields ==
  ASSUME NEW m \in Messages
  PROVE  /\ m.text \in Conversation!Texts
         /\ m = [role |-> m.role, text |-> m.text, calls |-> m.calls, id |-> m.id, of |-> m.of]
<1> USE RequestsAssumption DEF Conversation!RequestAssumption, Conversation!Said, Conversation!Texts
<1>1. CASE m \in {Conversation!Said("system", "long"), Conversation!Said("user", "short")}
  <2>1. CASE m = Conversation!Said("system", "long")
    BY <2>1, Zenon
  <2>2. CASE m = Conversation!Said("user", "short")
    BY <2>2, Zenon
  <2> QED
    BY <1>1, <2>1, <2>2, Zenon
<1>2. ASSUME NEW t \in Turns, m = [Conversation!Said("assistant", t.text) EXCEPT !.calls = t.calls]
      PROVE  /\ m.text \in Conversation!Texts
             /\ m = [role |-> m.role, text |-> m.text, calls |-> m.calls, id |-> m.id, of |-> m.of]
  BY <1>2, Zenon
<1>3. ASSUME NEW t \in Turns, NEW i \in 1..Len(t.calls),
             m = [Conversation!Said("tool", t.results[i]) EXCEPT !.id = t.calls[i].id]
      PROVE  /\ m.text \in Conversation!Texts
             /\ m = [role |-> m.role, text |-> m.text, calls |-> m.calls, id |-> m.id, of |-> m.of]
  BY <1>3, Zenon
<1> QED
  BY <1>1, <1>2, <1>3, ZenonT(30) DEF Messages

LEMMA BeginIs ==
  ASSUME RequestInv, NEW n \in 0..Len(history)
  PROVE  /\ Begin(n) \in Seq(Messages) /\ Len(Begin(n)) = n /\ n \in Nat
         /\ \A i \in 1..n : Begin(n)[i] = history[i] /\ history[i] \in Messages
<1>1. Len(history) \in Nat /\ \A i \in 1..Len(history) : history[i] \in Messages
  BY ElementOfSeq, LenProperties DEF RequestInv
<1>2. n \in Nat /\ Begin(n) \in [1..n -> Messages]
  BY <1>1 DEF Begin
<1>3. \A i \in 1..n : Begin(n)[i] = history[i] /\ history[i] \in Messages
  BY <1>1 DEF Begin
<1> QED
  BY <1>2, <1>3, Mapped

LEMMA WholeIs == RequestInv => Begin(Len(history)) = history
<1> SUFFICES ASSUME RequestInv PROVE Begin(Len(history)) = history
  OBVIOUS
<1>1. history \in Seq(Messages) /\ Len(history) \in Nat
  BY LenProperties DEF RequestInv
<1>2. Begin(Len(history)) \in Seq(Messages) /\ Len(Begin(Len(history))) = Len(history)
      /\ \A i \in 1..Len(history) : Begin(Len(history))[i] = history[i]
  BY <1>1, BeginIs
<1> QED
  BY <1>1, <1>2, SeqEqual

LEMMA SameCount == \A S : Conversation!Cardinality(S) = Cardinality(S)
  BY DEF Conversation!Cardinality, Cardinality

LEMMA TurnsAreFinite ==
  ASSUME NEW p \in Seq(Messages), NEW role
  PROVE  /\ IsFiniteSet(Conversation!Positions(p, role)) /\ Conversation!Positions(p, role) \in SUBSET (1..Len(p))
         /\ \A T \in SUBSET Conversation!Positions(p, role) : IsFiniteSet(T) /\ Cardinality(T) \in Nat
         /\ Len(p) \in Nat
<1>1. Len(p) \in Nat
  BY LenProperties
<1>2. IsFiniteSet(1..Len(p))
  BY <1>1, FS_Interval
<1>3. Conversation!Positions(p, role) \in SUBSET (1..Len(p))
  BY DEF Conversation!Positions
<1> QED
  BY <1>1, <1>2, <1>3, FS_Subset, FS_CardinalityType

Behind(p, c) == {j \in Conversation!Positions(p, "assistant") : j >= c}
Protecting(p) == {i \in Conversation!Positions(p, "assistant") : Cardinality(Behind(p, i)) >= keep}
Elides(p) == keep # 0 /\ Cardinality(Conversation!Positions(p, "assistant")) > keep

\* The protected window opens with the last message that has enough turns behind it.
LEMMA CutoffIs ==
  ASSUME NEW p \in Seq(Messages), keep \in Nat
  PROVE  /\ ~Elides(p) => Conversation!Cutoff(p) = 1
         /\ Elides(p) => /\ Conversation!Cutoff(p) \in Protecting(p)
                         /\ \A i \in Protecting(p) : Conversation!Cutoff(p) >= i
         /\ Protecting(p) \subseteq 1..Len(p) /\ Conversation!Cutoff(p) \in Nat \ {0}
<1> DEFINE turns == Conversation!Positions(p, "assistant")
<1>1. IsFiniteSet(turns) /\ turns \in SUBSET (1..Len(p)) /\ Cardinality(turns) \in Nat /\ Len(p) \in Nat
  BY TurnsAreFinite
<1>2. Conversation!Cutoff(p) = IF ~Elides(p) THEN 1 ELSE Conversation!Max(Protecting(p))
  <2>1. Elides(p) <=> ~(keep = 0 \/ Cardinality(turns) <= keep)
    BY <1>1 DEF Elides
  <2> HIDE DEF turns
  <2>2. Conversation!Cutoff(p) =
          IF keep = 0 \/ Cardinality(turns) <= keep THEN 1
          ELSE Conversation!Max({i \in turns : Cardinality({j \in turns : j >= i}) >= keep})
    BY SameCount DEF Conversation!Cutoff, turns
  <2>3. Protecting(p) = {i \in turns : Cardinality({j \in turns : j >= i}) >= keep}
    BY DEF Protecting, Behind, turns
  <2> QED
    BY <2>1, <2>2, <2>3, Zenon
<1>3. ASSUME Elides(p)
      PROVE  Conversation!Cutoff(p) \in Protecting(p) /\ \A i \in Protecting(p) : Conversation!Cutoff(p) >= i
  <2>1. turns # {}
    BY <1>1, <1>3, FS_EmptySet DEF Elides
  <2>2. turns \in SUBSET Nat
    BY <1>1
  <2>3. PICK first \in turns : \A m \in turns : first <= m
    <3> HIDE DEF turns
    <3> QED
      BY <2>1, <2>2, LeastNumber
  <2>4. Behind(p, first) = turns
    BY <2>2, <2>3 DEF Behind
  <2>5. first \in Protecting(p)
    BY <1>1, <1>3, <2>3, <2>4 DEF Protecting, Elides
  <2>6. Protecting(p) \in SUBSET (0..Len(p)) /\ Protecting(p) # {}
    BY <1>1, <2>5 DEF Protecting
  <2>7. \E n \in Protecting(p) : \A m \in Protecting(p) : n >= m
    BY <1>1, <2>6, GreatestNumber
  <2> QED
    BY <1>2, <1>3, <2>7 DEF Conversation!Max
<1>4. Protecting(p) \subseteq 1..Len(p)
  BY <1>1 DEF Protecting
<1> QED
  BY <1>1, <1>2, <1>3, <1>4

LEMMA StaleIs ==
  ASSUME NEW p \in Seq(Messages), keep \in Nat, NEW i \in 1..Len(p), Conversation!IsStale(p, i)
  PROVE  /\ p[i].role = "tool" /\ p[i].text = "long" /\ keep > 0
         /\ Cardinality({j \in Conversation!Positions(p, "assistant") : j > i}) >= keep
<1> DEFINE after == {j \in Conversation!Positions(p, "assistant") : j > i}
<1>1. Len(p) \in Nat /\ after \in SUBSET Conversation!Positions(p, "assistant")
      /\ Conversation!Positions(p, "assistant") \in SUBSET (1..Len(p))
  BY TurnsAreFinite
<1>2. i < Conversation!Cutoff(p)
  BY DEF Conversation!IsStale
<1>3. Elides(p)
  BY <1>1, <1>2, CutoffIs
<1>4. Conversation!Cutoff(p) \in Protecting(p)
  BY <1>3, CutoffIs
<1>5. Behind(p, Conversation!Cutoff(p)) \in SUBSET after
  BY <1>1, <1>2, <1>4 DEF Behind, Protecting
<1>6. IsFiniteSet(after) /\ Cardinality(after) \in Nat
  BY <1>1, TurnsAreFinite
<1>7. Cardinality(Behind(p, Conversation!Cutoff(p))) <= Cardinality(after)
      /\ Cardinality(Behind(p, Conversation!Cutoff(p))) \in Nat
  BY <1>5, <1>6, FS_Subset, FS_CardinalityType
<1>8. Cardinality(after) >= keep
  BY <1>4, <1>6, <1>7, SMTT(30) DEF Protecting
<1> QED
  BY <1>3, <1>8 DEF Elides, Conversation!IsStale

LEMMA ElideIs ==
  ASSUME NEW p \in Seq(Messages)
  PROVE  /\ Len(Conversation!Elide(p)) = Len(p) /\ Len(p) \in Nat
         /\ Conversation!Elide(p) \in Seq({Conversation!Elide(p)[i] : i \in 1..Len(p)})
         /\ \A i \in 1..Len(p) :
              /\ ~Conversation!IsStale(p, i) => Conversation!Elide(p)[i] = p[i]
              /\ Conversation!IsStale(p, i) =>
                   Conversation!Elide(p)[i] =
                     [p[i] EXCEPT !.text = "elided", !.of = Conversation!ToolNameFor(p, p[i].id)]
              /\ Conversation!Elide(p)[i].text =
                   IF Conversation!IsStale(p, i) THEN "elided" ELSE p[i].text
              /\ Conversation!Elide(p)[i].role = p[i].role
              /\ Conversation!Elide(p)[i].calls = p[i].calls
              /\ Conversation!Elide(p)[i].id = p[i].id
<1> DEFINE e == Conversation!Elide(p)
<1>1. Len(p) \in Nat /\ \A i \in 1..Len(p) : p[i] \in Messages
  BY LenProperties, ElementOfSeq
<1>2. DOMAIN e = 1..Len(p) /\ e = [i \in 1..Len(p) |-> e[i]]
      /\ \A i \in 1..Len(p) :
           e[i] = IF Conversation!IsStale(p, i)
                  THEN [p[i] EXCEPT !.text = "elided", !.of = Conversation!ToolNameFor(p, p[i].id)]
                  ELSE p[i]
  BY DEF Conversation!Elide
<1> HIDE DEF e
<1>3. e \in [1..Len(p) -> {e[i] : i \in 1..Len(p)}]
  BY <1>2, Zenon
<1>4. e \in Seq({e[i] : i \in 1..Len(p)}) /\ Len(e) = Len(p)
  BY <1>1, <1>3, Mapped
<1>5. ASSUME NEW i \in 1..Len(p)
      PROVE  /\ e[i].text = IF Conversation!IsStale(p, i) THEN "elided" ELSE p[i].text
             /\ e[i].role = p[i].role /\ e[i].calls = p[i].calls /\ e[i].id = p[i].id
  <2>1. p[i] = [role |-> p[i].role, text |-> p[i].text, calls |-> p[i].calls, id |-> p[i].id, of |-> p[i].of]
    BY <1>1, MessageFields
  <2>2. DOMAIN p[i] = {"role", "text", "calls", "id", "of"}
    BY <2>1
  <2> QED
    BY <1>2, <2>2, Zenon
<1> QED
  BY <1>1, <1>2, <1>4, <1>5, Zenon DEF e

\* A longer record of the same beginning.
Extends(p, q) == Len(p) <= Len(q) /\ \A i \in 1..Len(p) : q[i] = p[i]

\* In a longer record the window opens later if at all.
LEMMA CutoffGrows ==
  ASSUME NEW p \in Seq(Messages), NEW q \in Seq(Messages), keep \in Nat, Extends(p, q)
  PROVE  Conversation!Cutoff(p) <= Conversation!Cutoff(q)
<1> DEFINE old == Conversation!Positions(p, "assistant")
           new == Conversation!Positions(q, "assistant")
<1>1. /\ IsFiniteSet(new) /\ new \in SUBSET (1..Len(q)) /\ old \in SUBSET (1..Len(p))
      /\ \A T \in SUBSET new : IsFiniteSet(T) /\ Cardinality(T) \in Nat
  BY TurnsAreFinite
<1>2. old \in SUBSET new
  BY LenProperties DEF Extends, Conversation!Positions
<1>3. CASE ~Elides(p)
  <2>1. Conversation!Cutoff(p) = 1 /\ Conversation!Cutoff(q) \in Nat \ {0}
    BY <1>3, CutoffIs
  <2> QED
    BY <2>1
<1>4. CASE Elides(p)
  <2> DEFINE c == Conversation!Cutoff(p)
  <2>1. c \in Protecting(p) /\ c \in Nat
    BY <1>4, CutoffIs
  <2>2. c \in new /\ Cardinality(Behind(p, c)) >= keep
    BY <1>2, <2>1 DEF Protecting
  <2>3. Behind(p, c) \in SUBSET Behind(q, c) /\ Behind(q, c) \in SUBSET new
    BY <1>2 DEF Behind
  <2>4. /\ Cardinality(Behind(p, c)) <= Cardinality(Behind(q, c))
        /\ Cardinality(Behind(p, c)) \in Nat /\ Cardinality(Behind(q, c)) \in Nat
    BY <1>1, <1>2, <2>3, FS_Subset
  <2>5. Cardinality(Behind(q, c)) >= keep
    BY <2>2, <2>4
  <2>6. c \in Protecting(q)
    BY <2>2, <2>5 DEF Protecting
  <2>7. Cardinality(old) <= Cardinality(new) /\ Cardinality(old) \in Nat /\ Cardinality(new) \in Nat
    BY <1>1, <1>2, FS_Subset
  <2>8. Elides(q)
    BY <1>4, <2>7 DEF Elides
  <2> QED
    BY <2>6, <2>8, CutoffIs
<1> QED
  BY <1>3, <1>4

\* A result in a record that has its call keeps its name when the record grows.
LEMMA NameStays ==
  ASSUME NEW p \in Seq(Messages), NEW q \in Seq(Messages), Extends(p, q), NEW id,
         \E h \in 1..Len(p) : \E j \in DOMAIN p[h].calls : p[h].calls[j].id = id
  PROVE  Conversation!ToolNameFor(p, id) = Conversation!ToolNameFor(q, id)
<1> DEFINE Named(m, i) == {j \in DOMAIN m[i].calls : m[i].calls[j].id = id}
           naming(m) == {i \in 1..Len(m) : Named(m, i) # {}}
           first(m) == Conversation!Min(naming(m))
<1>1. ASSUME NEW m
      PROVE  Conversation!ToolNameFor(m, id) =
               IF naming(m) = {} THEN "tool" ELSE m[first(m)].calls[Conversation!Min(Named(m, first(m)))].tool
  BY Zenon DEF Conversation!ToolNameFor
<1>2. Len(p) \in Nat /\ Len(q) \in Nat /\ Len(p) <= Len(q) /\ \A i \in 1..Len(p) : q[i] = p[i]
  BY LenProperties DEF Extends
<1>3. \A i \in 1..Len(p) : Named(p, i) = Named(q, i)
  BY <1>2
<1> HIDE DEF Named
<1>4. naming(p) # {} /\ naming(p) \in SUBSET naming(q) /\ naming(p) \in SUBSET Nat
  BY <1>2, <1>3 DEF Named
<1>5. \A i \in naming(q) : i \in naming(p) \/ \A k \in naming(p) : k <= i
  BY <1>2, <1>3
<1> HIDE DEF naming
<1>6. PICK n \in naming(p) : \A m \in naming(p) : n <= m
  BY <1>4, LeastNumber
<1>7. first(p) \in naming(p) /\ \A m \in naming(p) : first(p) <= m
  BY <1>6 DEF Conversation!Min
<1>8. \A m \in naming(q) : n <= m
  BY <1>5, <1>6
<1>9. first(q) \in naming(q) /\ \A m \in naming(q) : first(q) <= m
  BY <1>4, <1>6, <1>8 DEF Conversation!Min
<1>10. naming(q) \in SUBSET Nat
  BY <1>2 DEF naming
<1>11. first(p) = n /\ first(q) = n
  BY <1>4, <1>6, <1>7, <1>8, <1>9, <1>10
<1>12. n \in 1..Len(p)
  BY DEF naming
<1>13. naming(q) # {} /\ q[n] = p[n] /\ Named(q, n) = Named(p, n)
  BY <1>2, <1>3, <1>4, <1>12
<1> HIDE DEF first
<1> QED
  BY <1>1, <1>4, <1>11, <1>13

\* What was elided stays elided, and what is not elided is what was said.
LEMMA ElideGrows ==
  ASSUME NEW p \in Seq(Messages), NEW q \in Seq(Messages), keep \in Nat, Extends(p, q),
         NEW i \in 1..Len(p), Conversation!IsStale(p, i),
         \E h \in 1..Len(p) : \E j \in DOMAIN p[h].calls : p[h].calls[j].id = p[i].id
  PROVE  Conversation!Elide(q)[i] = Conversation!Elide(p)[i]
<1>1. q[i] = p[i] /\ i \in 1..Len(q) /\ i \in Nat
  BY LenProperties DEF Extends
<1>2. /\ Conversation!Cutoff(p) <= Conversation!Cutoff(q)
      /\ Conversation!Cutoff(p) \in Nat /\ Conversation!Cutoff(q) \in Nat
  BY CutoffGrows, CutoffIs
<1>3. Conversation!IsStale(q, i)
  BY <1>1, <1>2 DEF Conversation!IsStale
<1>4. Conversation!ToolNameFor(p, p[i].id) = Conversation!ToolNameFor(q, q[i].id)
  BY <1>1, NameStays, SMTT(30)
<1>5. /\ Conversation!Elide(p)[i] =
           [p[i] EXCEPT !.text = "elided", !.of = Conversation!ToolNameFor(p, p[i].id)]
      /\ Conversation!Elide(q)[i] =
           [q[i] EXCEPT !.text = "elided", !.of = Conversation!ToolNameFor(q, q[i].id)]
  BY <1>1, <1>3, ElideIs, Zenon
<1> QED
  BY <1>1, <1>4, <1>5

LEMMA NothingStale ==
  ASSUME NEW p \in Seq(Messages), keep = 0
  PROVE  Conversation!Elide(p) = p
<1>1. Conversation!Cutoff(p) = 1 /\ Len(p) \in Nat
  BY CutoffIs, LenProperties DEF Elides
<1>2. \A i \in 1..Len(p) : ~Conversation!IsStale(p, i)
  BY <1>1 DEF Conversation!IsStale
<1>3. Conversation!Elide(p) = [i \in 1..Len(p) |-> p[i]]
  BY <1>2, Zenon DEF Conversation!Elide
<1>4. p = [i \in 1..Len(p) |-> p[i]]
  OBVIOUS
<1> QED
  BY <1>3, <1>4

\* The markers are on the task and on the last message that can hold one.
LEMMA MarkersAre ==
  ASSUME NEW p \in Seq(Messages), Len(p) >= 2, p[2] = Conversation!Said("user", "short")
  PROVE  \E x \in 2..Len(p) :
           /\ Conversation!Breakpoints(Conversation!Elide(p)) = {2, x}
           /\ \A i \in 1..Len(p) : Conversation!Elide(p)[i].text # "none" => i <= x
<1> DEFINE e == Conversation!Elide(p)
           later == {i \in 3..Len(p) : e[i].text # "none"}
<1>1. Len(e) = Len(p) /\ Len(p) \in Nat
  BY ElideIs, ZenonT(30)
<1>2. e[2].text = "short"
  <2>1. p[2].role = "user" /\ p[2].text = "short"
    <3>1. Conversation!Said("user", "short").role = "user" /\ Conversation!Said("user", "short").text = "short"
      BY Zenon DEF Conversation!Said
    <3> QED
      BY <3>1
  <2>2. ~Conversation!IsStale(p, 2)
    BY <2>1 DEF Conversation!IsStale
  <2>3. 2 \in 1..Len(p)
    BY <1>1
  <2> QED
    BY <2>1, <2>2, <2>3, ElideIs, Zenon
<1>3. Conversation!Min({2, Len(p)}) = 2
  <2>1. \A x \in {2, Len(p)} : 2 <= x
    BY <1>1
  <2>2. \A y \in {2, Len(p)} : (\A x \in {2, Len(p)} : y <= x) => y = 2
    BY <1>1
  <2> QED
    BY <2>1, <2>2 DEF Conversation!Min
<1> HIDE DEF e
<1>4. Conversation!Breakpoints(e) = {2} \cup (IF later = {} THEN {} ELSE {Conversation!Max(later)})
  <2>1. 3 = 2 + 1 /\ {i \in {2} : Conversation!CanMark(e[i])} = {2}
    BY <1>2 DEF Conversation!CanMark
  <2>2. {i \in 2 + 1..Len(e) : Conversation!CanMark(e[i])} = later
    BY <1>1, <2>1 DEF Conversation!CanMark
  <2>3. Conversation!Breakpoints(e) =
          {i \in {2} : Conversation!CanMark(e[i])}
            \cup (IF {i \in 2 + 1..Len(e) : Conversation!CanMark(e[i])} = {} THEN {}
                  ELSE {Conversation!Max({i \in 2 + 1..Len(e) : Conversation!CanMark(e[i])})})
    BY <1>1, <1>3, Zenon DEF Conversation!Breakpoints
  <2> QED
    BY <2>1, <2>2, <2>3, Zenon
<1>5. CASE later = {}
  <2>1. 2 \in 2..Len(p) /\ Conversation!Breakpoints(e) = {2, 2}
    BY <1>1, <1>4, <1>5
  <2>2. \A i \in 1..Len(p) : e[i].text # "none" => i <= 2
    BY <1>1, <1>5
  <2> QED
    BY <2>1, <2>2 DEF e
<1>6. CASE later # {}
  <2> DEFINE x == Conversation!Max(later)
  <2>1. later \in SUBSET (0..Len(p))
    BY <1>1
  <2>2. \E n \in later : \A m \in later : n >= m
    <3> HIDE DEF later
    <3> QED
      BY <1>1, <1>6, <2>1, GreatestNumber
  <2>3. x \in later /\ \A m \in later : x >= m
    BY <2>2 DEF Conversation!Max
  <2> HIDE DEF x
  <2>4. x \in 3..Len(p)
    BY <2>3
  <2>5. x \in 2..Len(p) /\ Conversation!Breakpoints(e) = {2, x}
    <3>1. {2} \cup {x} = {2, x}
      OBVIOUS
    <3>2. Conversation!Breakpoints(e) = {2} \cup {x}
      BY <1>4, <1>6, Zenon DEF x
    <3> QED
      BY <1>1, <2>4, <3>1, <3>2
  <2>6. \A i \in 1..Len(p) : e[i].text # "none" => i <= x
    BY <1>1, <2>3, <2>4
  <2> QED
    BY <2>5, <2>6 DEF e
<1> QED
  BY <1>5, <1>6

LEMMA RequestStarts ==
  ASSUME keep \in Keeps, explicit \in BOOLEAN, wire = [messages |-> <<>>, marks |-> {}],
         history = <<Conversation!Said("system", "long"), Conversation!Said("user", "short")>>
  PROVE  RequestInv
<1>1. history \in Seq(Messages) /\ Len(history) = 2
  BY DEF Messages
<1>2. \A i \in 1..Len(history) : history[i].role # "tool"
  <2>1. history[1].role = "system" /\ history[2].role = "user"
    BY Zenon DEF Conversation!Said
  <2>2. \A i \in 1..Len(history) : i = 1 \/ i = 2
    BY <1>1
  <2> QED
    BY <2>1, <2>2
<1> QED
  BY <1>1, <1>2 DEF RequestInv

LEMMA RequestInitial == Conversation!Init => RequestInv
  BY RequestStarts DEF Conversation!Init

LEMMA RequestStandsStill == NoRequest => RequestInv
  BY RequestStarts, RequestsAssumption DEF NoRequest, Conversation!RequestAssumption

LEMMA SentStays ==
  ASSUME NEW n, Begin(n)' = Begin(n), UNCHANGED <<keep, explicit>>
  PROVE  Sent(n)' = Sent(n)
  BY DEF Sent, Conversation!Elide, Conversation!IsStale, Conversation!Cutoff, Conversation!ToolNameFor,
     Conversation!Breakpoints, Conversation!CanMark

LEMMA SendStep ==
  ASSUME RequestInv, Conversation!Send
  PROVE  RequestInv' /\ wire' = Sent(Len(history)) /\ history' = history
<1>1. wire' = Sent(Len(history)) /\ UNCHANGED <<keep, explicit, history>>
  BY WholeIs, Zenon DEF Conversation!Send, Sent
<1>2. PICK n \in 2..Len(history) : n = Len(history)
  BY LenProperties DEF RequestInv
<1>3. Sent(n)' = Sent(n)
  BY <1>1, SentStays DEF Begin
<1>4. wire' = Sent(n)' /\ n \in 2..Len(history')
  BY <1>1, <1>2, <1>3
<1> QED
  BY <1>1, <1>4 DEF RequestInv

LEMMA AnswerStep ==
  ASSUME RequestInv, Conversation!Answer
  PROVE  RequestInv'
<1>1. PICK t \in Turns :
        history' = history
          \o <<[Conversation!Said("assistant", t.text) EXCEPT !.calls = t.calls]>>
          \o [i \in 1..Len(t.calls) |-> [Conversation!Said("tool", t.results[i]) EXCEPT !.id = t.calls[i].id]]
  BY DEF Conversation!Answer
<1>2. UNCHANGED <<keep, explicit, wire>>
  BY DEF Conversation!Answer
<1> DEFINE said == [Conversation!Said("assistant", t.text) EXCEPT !.calls = t.calls]
           told == [i \in 1..Len(t.calls) |-> [Conversation!Said("tool", t.results[i]) EXCEPT !.id = t.calls[i].id]]
           n == Len(history)
           k == Len(t.calls)
<1>3. k \in Nat /\ DOMAIN t.calls = 1..k
  BY RequestsAssumption, LenProperties DEF Conversation!RequestAssumption
<1>4. said \in Messages /\ \A i \in 1..k : told[i] \in Messages
  <2>1. said \in Messages
    BY DEF Messages
  <2>2. ASSUME NEW i \in 1..k PROVE told[i] \in Messages
    <3>1. told[i] = [Conversation!Said("tool", t.results[i]) EXCEPT !.id = t.calls[i].id]
      OBVIOUS
    <3>2. told[i] \in {[Conversation!Said("tool", t.results[j]) EXCEPT !.id = t.calls[j].id] : j \in 1..Len(t.calls)}
      BY <3>1
    <3> HIDE DEF told
    <3> QED
      BY <3>2 DEF Messages
  <2> QED
    BY <2>1, <2>2
<1>5. said.role = "assistant" /\ said.calls = t.calls /\ \A i \in 1..k : told[i].role = "tool" /\ told[i].id = t.calls[i].id
  BY Zenon DEF Conversation!Said
<1>6. told \in Seq(Messages) /\ Len(told) = k
  <2>1. told \in [1..k -> Messages]
    BY <1>4
  <2> HIDE DEF told
  <2> QED
    BY <1>3, <2>1, Mapped
<1> HIDE DEF said, told, k
<1>7. history \in Seq(Messages) /\ n \in Nat /\ n >= 2
  BY LenProperties DEF RequestInv
<1>8. /\ history \o <<said>> \in Seq(Messages) /\ Len(history \o <<said>>) = n + 1
      /\ \A i \in 1..n : (history \o <<said>>)[i] = history[i]
      /\ (history \o <<said>>)[n + 1] = said
  <2>1. <<said>> \in Seq(Messages) /\ Len(<<said>>) = 1 /\ <<said>>[1] = said
    BY <1>4
  <2> HIDE DEF n
  <2>2. /\ history \o <<said>> \in Seq(Messages) /\ Len(history \o <<said>>) = Len(history) + 1
        /\ \A i \in 1..(Len(history) + 1) :
             (history \o <<said>>)[i] = IF i <= Len(history) THEN history[i] ELSE <<said>>[i - Len(history)]
    BY <1>7, <2>1, ConcatProperties
  <2>3. n + 1 \in 1..(n + 1) /\ ~(n + 1 <= n) /\ n + 1 - n = 1 /\ \A i \in 1..n : i \in 1..(n + 1) /\ i <= n
    BY <1>7
  <2> QED
    BY <2>1, <2>2, <2>3 DEF n
<1>9. /\ history' \in Seq(Messages) /\ Len(history') = n + 1 + k
      /\ \A i \in 1..n : history'[i] = history[i]
      /\ history'[n + 1] = said
      /\ \A i \in 1..k : history'[n + 1 + i] = told[i]
  <2> DEFINE h == history \o <<said>>
  <2>1. history' = h \o told
    BY <1>1 DEF said, told, k
  <2> HIDE DEF h
  <2>2. h \in Seq(Messages) /\ Len(h) = n + 1 /\ (\A i \in 1..n : h[i] = history[i]) /\ h[n + 1] = said
    BY <1>8 DEF h
  <2>3. /\ history' \in Seq(Messages) /\ Len(history') = Len(h) + Len(told)
        /\ \A i \in 1..(Len(h) + Len(told)) : history'[i] = IF i <= Len(h) THEN h[i] ELSE told[i - Len(h)]
    <3>1. /\ h \o told \in Seq(Messages) /\ Len(h \o told) = Len(h) + Len(told)
          /\ \A i \in 1..(Len(h) + Len(told)) : (h \o told)[i] = IF i <= Len(h) THEN h[i] ELSE told[i - Len(h)]
      BY <1>6, <2>2, ConcatProperties
    <3> QED
      BY <2>1, <3>1
  <2> HIDE DEF n
  <2>4. \A i \in 1..(n + 1) : history'[i] = h[i]
    BY <1>3, <1>6, <1>7, <2>2, <2>3
  <2>5. \A i \in 1..k : n + 1 + i \in 1..(n + 1 + k) /\ ~(n + 1 + i <= n + 1) /\ n + 1 + i - (n + 1) = i
    BY <1>3, <1>7
  <2>6. \A i \in 1..n : i \in 1..(n + 1)
    BY <1>7
  <2>7. n + 1 \in 1..(n + 1)
    BY <1>7
  <2>8. Len(history') = n + 1 + k
    BY <1>6, <2>2, <2>3
  <2>9. \A i \in 1..k : history'[n + 1 + i] = told[i]
    BY <1>6, <2>2, <2>3, <2>5
  <2> QED
    BY <2>2, <2>3, <2>4, <2>6, <2>7, <2>8, <2>9
<1> HIDE DEF n
<1>10. ASSUME NEW i \in 1..Len(history'), history'[i].role = "tool"
       PROVE  \E h \in 1..(i - 1) : \E j \in DOMAIN history'[h].calls : history'[h].calls[j].id = history'[i].id
  <2>1. CASE i \in 1..n
    <3>1. history[i].role = "tool" /\ history'[i] = history[i] /\ i \in 1..Len(history)
      BY <1>9, <1>10, <2>1 DEF n
    <3>2. PICK h \in 1..(i - 1) : \E j \in DOMAIN history[h].calls : history[h].calls[j].id = history[i].id
      BY <3>1 DEF RequestInv
    <3>3. h \in 1..n
      BY <1>7, <2>1
    <3>4. history'[h] = history[h]
      BY <1>9, <3>3
    <3> QED
      BY <3>1, <3>2, <3>4
  <2>2. CASE i = n + 1
    BY <1>5, <1>9, <1>10, <2>2
  <2>3. CASE i \in (n + 2)..(n + 1 + k)
    <3>1. PICK j \in 1..k : i = n + 1 + j
      <4>1. i - (n + 1) \in 1..k /\ i = n + 1 + (i - (n + 1))
        BY <1>3, <1>7, <2>3
      <4> QED
        BY <4>1
    <3>2. history'[i].id = t.calls[j].id /\ history'[n + 1].calls = t.calls
      BY <1>5, <1>9, <3>1
    <3>3. n + 1 \in 1..(i - 1) /\ j \in DOMAIN t.calls
      BY <1>3, <1>7, <3>1
    <3> QED
      BY <3>2, <3>3
  <2> QED
    BY <1>3, <1>7, <1>9, <2>1, <2>2, <2>3
<1>11. wire' = [messages |-> <<>>, marks |-> {}] \/ \E b \in 2..Len(history') : wire' = Sent(b)'
  <2>1. CASE wire = [messages |-> <<>>, marks |-> {}]
    BY <1>2, <2>1
  <2>2. ASSUME NEW b \in 2..Len(history), wire = Sent(b) PROVE wire' = Sent(b)' /\ b \in 2..Len(history')
    <3>1. Begin(b)' = Begin(b)
      <4>1. \A i \in 1..b : i \in 1..n
        BY <1>7 DEF n
      <4>2. \A i \in 1..b : history'[i] = history[i]
        BY <1>9, <4>1
      <4> QED
        BY <4>2 DEF Begin
    <3>2. Sent(b)' = Sent(b)
      BY <1>2, <3>1, SentStays
    <3>3. b \in 2..Len(history')
      BY <1>3, <1>7, <1>9 DEF n
    <3> QED
      BY <1>2, <2>2, <3>2, <3>3
  <2> QED
    BY <2>1, <2>2 DEF RequestInv
<1>12. Len(history') >= 2 /\ history'[2] = Conversation!Said("user", "short")
  <2>1. 2 \in 1..n /\ Len(history') >= 2
    BY <1>3, <1>7, <1>9
  <2> QED
    BY <1>9, <2>1 DEF RequestInv
<1> QED
  BY <1>2, <1>9, <1>10, <1>11, <1>12 DEF RequestInv

LEMMA RequestStep == RequestInv /\ [Conversation!Next]_requestVars => RequestInv'
<1> SUFFICES ASSUME RequestInv, [Conversation!Next]_requestVars PROVE RequestInv'
  OBVIOUS
<1>1. CASE UNCHANGED requestVars
  <2>1. \A n \in 2..Len(history) : Sent(n)' = Sent(n)
    BY <1>1, SentStays DEF requestVars, Begin
  <2> QED
    BY <1>1, <2>1 DEF requestVars, RequestInv
<1> QED
  BY <1>1, SendStep, AnswerStep DEF Conversation!Next

LEMMA PrefixIs ==
  ASSUME NEW S, NEW p \in Seq(S), NEW q \in Seq(S), Len(p) <= Len(q), \A i \in 1..Len(p) : q[i] = p[i]
  PROVE  Conversation!IsPrefix(p, q)
<1>1. Len(p) \in 0..Len(p) /\ Len(p) \in 0..Len(q)
  BY LenProperties
<1>2. /\ SubSeq(p, 1, Len(p)) \in Seq(S) /\ Len(SubSeq(p, 1, Len(p))) = Len(p)
      /\ \A i \in 1..Len(p) : SubSeq(p, 1, Len(p))[i] = p[i]
  BY <1>1, Taken
<1>3. /\ SubSeq(q, 1, Len(p)) \in Seq(S) /\ Len(SubSeq(q, 1, Len(p))) = Len(p)
      /\ \A i \in 1..Len(p) : SubSeq(q, 1, Len(p))[i] = q[i]
  BY <1>1, Taken
<1>4. SubSeq(p, 1, Len(p)) = SubSeq(q, 1, Len(p))
  BY <1>2, <1>3, SeqEqual
<1> QED
  BY <1>4 DEF Conversation!IsPrefix

\* What is on the wire, when anything is.
LEMMA WireIs ==
  ASSUME RequestInv
  PROVE  \/ wire.messages = <<>> /\ wire.marks = {}
         \/ \E n \in 2..Len(history) :
              /\ wire.messages = Conversation!Elide(Begin(n))
              /\ wire.marks = IF explicit THEN Conversation!Breakpoints(Conversation!Elide(Begin(n))) ELSE {}
              /\ Begin(n) \in Seq(Messages) /\ Len(Begin(n)) = n /\ n \in Nat /\ n >= 2
              /\ \A i \in 1..n : Begin(n)[i] = history[i] /\ history[i] \in Messages
              /\ Len(wire.messages) = n /\ Len(history) \in Nat /\ n <= Len(history)
<1>1. CASE wire = [messages |-> <<>>, marks |-> {}]
  BY <1>1
<1>2. ASSUME NEW n \in 2..Len(history), wire = Sent(n)
      PROVE  /\ wire.messages = Conversation!Elide(Begin(n))
             /\ wire.marks = IF explicit THEN Conversation!Breakpoints(Conversation!Elide(Begin(n))) ELSE {}
             /\ Begin(n) \in Seq(Messages) /\ Len(Begin(n)) = n /\ n \in Nat /\ n >= 2
             /\ \A i \in 1..n : Begin(n)[i] = history[i] /\ history[i] \in Messages
             /\ Len(wire.messages) = n /\ Len(history) \in Nat /\ n <= Len(history)
  <2>1. Len(history) \in Nat
    BY LenProperties DEF RequestInv
  <2>2. n \in 0..Len(history)
    BY <2>1
  <2>3. /\ Begin(n) \in Seq(Messages) /\ Len(Begin(n)) = n /\ n \in Nat
        /\ \A i \in 1..n : Begin(n)[i] = history[i] /\ history[i] \in Messages
    BY <2>2, BeginIs
  <2>4. wire.messages = Conversation!Elide(Begin(n))
    BY <1>2 DEF Sent
  <2>5. wire.marks = IF explicit THEN Conversation!Breakpoints(Conversation!Elide(Begin(n))) ELSE {}
    BY <1>2 DEF Sent
  <2>6. Len(wire.messages) = n
    BY <2>3, <2>4, ElideIs, Zenon
  <2> QED
    BY <2>1, <2>3, <2>4, <2>5, <2>6
<1> QED
  BY <1>1, <1>2, Zenon DEF RequestInv

LEMMA MarksAreFew ==
  ASSUME NEW x, NEW B, B = {2, x}
  PROVE  Conversation!Cardinality(B) <= 4
<1>1. IsFiniteSet({2}) /\ Cardinality({2}) = 1
  BY FS_Singleton
<1>2. {2, x} = {2} \cup {x}
  OBVIOUS
<1>3. Cardinality({2} \cup {x}) = 1 \/ Cardinality({2} \cup {x}) = 1 + 1
  BY <1>1, FS_AddElement
<1>4. Conversation!Cardinality(B) = 1 \/ Conversation!Cardinality(B) = 1 + 1
  BY <1>2, <1>3, SameCount
<1> QED
  BY <1>4

LEMMA RequestsWhole == RequestInv => RequestsAreWhole
<1> SUFFICES ASSUME RequestInv PROVE RequestsAreWhole
  OBVIOUS
<1>1. keep \in Keeps /\ keep \in Nat /\ explicit \in BOOLEAN
  BY RequestsAssumption DEF RequestInv, Conversation!RequestAssumption
<1>2. CASE wire.messages = <<>> /\ wire.marks = {}
  <2>1. Len(wire.messages) = 0 /\ 1..Len(wire.messages) = {}
    BY <1>2
  <2>2. Conversation!Cardinality(wire.marks) = 0
    BY <1>2, SameCount, FS_EmptySet
  <2> QED
    BY <1>1, <1>2, <2>1, <2>2
    DEF RequestsAreWhole, Conversation!TypeOK, Conversation!DecisionsAreKept, Conversation!NothingCacheableIsMissed
<1>3. ASSUME NEW n \in 2..Len(history),
             wire.messages = Conversation!Elide(Begin(n)),
             wire.marks = IF explicit THEN Conversation!Breakpoints(Conversation!Elide(Begin(n))) ELSE {},
             Begin(n) \in Seq(Messages), Len(Begin(n)) = n, n \in Nat, n >= 2,
             \A i \in 1..n : Begin(n)[i] = history[i] /\ history[i] \in Messages,
             Len(wire.messages) = n, Len(history) \in Nat, n <= Len(history)
      PROVE  RequestsAreWhole
  <2> DEFINE p == Begin(n)
             e == wire.messages
  <2>1. \A i \in 1..n : /\ ~Conversation!IsStale(p, i) => e[i] = p[i]
                        /\ e[i].text = IF Conversation!IsStale(p, i) THEN "elided" ELSE p[i].text
                        /\ e[i].role = p[i].role /\ e[i].calls = p[i].calls /\ e[i].id = p[i].id
    <3>1. p \in Seq(Messages) /\ e = Conversation!Elide(p) /\ 1..Len(p) = 1..n
      BY <1>3
    <3> HIDE DEF p, e
    <3> QED
      BY <3>1, ElideIs, ZenonT(30)
  <2>2. \A i \in 1..n : p[i] = history[i] /\ p[i].text \in Conversation!Texts
    BY <1>3, MessageFields
  <2>3. PICK x \in 2..n : /\ Conversation!Breakpoints(e) = {2, x}
                          /\ \A i \in 1..n : e[i].text # "none" => i <= x
    <3>1. p[2] = Conversation!Said("user", "short")
      <4>1. 2 \in 1..n
        BY <1>3
      <4> QED
        BY <2>2, <4>1 DEF RequestInv
    <3> QED
      BY <1>3, <3>1, MarkersAre
  <2>4. wire.marks = IF explicit THEN {2, x} ELSE {}
    BY <1>3, <2>3
  <2> HIDE DEF p, e
  <2>5. Conversation!TypeOK
    <3>1. \A i \in 1..Len(wire.messages) : wire.messages[i].text \in Conversation!Texts \cup {"elided"}
      BY <1>3, <2>1, <2>2 DEF e
    <3>2. wire.marks \subseteq 1..Len(wire.messages)
      BY <1>3, <2>3, <2>4
    <3>3. Conversation!Cardinality(wire.marks) <= 4
      <4>1. CASE explicit
        BY <2>4, <4>1, MarksAreFew
      <4>2. CASE ~explicit
        <5>1. Conversation!Cardinality(wire.marks) = 0
          BY <2>4, <4>2, SameCount, FS_EmptySet
        <5> QED
          BY <5>1
      <4> QED
        BY <4>1, <4>2
    <3> QED
      BY <1>1, <3>1, <3>2, <3>3 DEF Conversation!TypeOK
  <2>6. Conversation!DecisionsAreKept
    <3> DEFINE short == [i \in 1..Len(e) |-> <<e[i].role, e[i].calls, e[i].id>>]
               long == [i \in 1..Len(history) |-> <<history[i].role, history[i].calls, history[i].id>>]
               S == {long[i] : i \in 1..Len(history)}
    <3>1. Conversation!IsPrefix(short, long)
      <4>1. long \in [1..Len(history) -> S]
        OBVIOUS
      <4>2. \A i \in 1..n : i \in 1..Len(history) /\ short[i] = long[i]
        BY <1>3, <2>1, <2>2 DEF e
      <4>3. short \in [1..n -> S]
        BY <1>3, <4>2 DEF e
      <4> HIDE DEF short, long, S
      <4>4. long \in Seq(S) /\ Len(long) = Len(history) /\ short \in Seq(S) /\ Len(short) = n
        BY <1>3, <4>1, <4>3, Mapped
      <4> QED
        BY <1>3, <4>2, <4>4, PrefixIs
    <3>2. Conversation!Positions(e, "assistant") = Conversation!Positions(p, "assistant")
      BY <1>3, <2>1 DEF Conversation!Positions, p, e
    <3>3. ASSUME NEW i \in 1..Len(e), e[i].text # history[i].text
          PROVE  /\ history[i].role = "tool" /\ keep > 0
                 /\ Conversation!Cardinality({j \in Conversation!Positions(e, "assistant") : j > i}) >= keep
      <4>1. i \in 1..n /\ i \in 1..Len(p) /\ p \in Seq(Messages)
        BY <1>3 DEF e, p
      <4>2. Conversation!IsStale(p, i)
        BY <2>1, <2>2, <3>3, <4>1
      <4>3. /\ p[i].role = "tool" /\ keep > 0
            /\ Cardinality({j \in Conversation!Positions(p, "assistant") : j > i}) >= keep
        BY <1>1, <4>1, <4>2, StaleIs
      <4> QED
        BY <2>2, <3>2, <4>1, <4>3, SameCount
    <3> HIDE DEF short, long
    <3> QED
      BY <3>1, <3>3 DEF Conversation!DecisionsAreKept, e, short, long
  <2>7. Conversation!NothingCacheableIsMissed
    <3> SUFFICES ASSUME explicit
                 PROVE  2 \in wire.marks /\ \A i \in 1..n : e[i].text # "none" => i <= Conversation!Max(wire.marks)
      BY <1>3 DEF Conversation!NothingCacheableIsMissed, e
    <3>1. wire.marks = {2, x}
      BY <2>4
    <3>2. x \in wire.marks /\ \A m \in wire.marks : x >= m
      BY <2>3, <3>1
    <3>3. \A y \in wire.marks : (\A m \in wire.marks : y >= m) => y = x
      BY <2>3, <3>1
    <3>4. Conversation!Max(wire.marks) = x
      BY <3>2, <3>3 DEF Conversation!Max
    <3> QED
      BY <2>3, <3>1, <3>4
  <2> QED
    BY <2>5, <2>6, <2>7, SMTT(30) DEF RequestsAreWhole
<1> QED
  BY <1>2, <1>3, WireIs

LEMMA WireStep ==
  ASSUME RequestInv, [Conversation!Next]_requestVars, wire' # wire
  PROVE  /\ keep = 0 => Conversation!IsPrefix(wire.messages, wire'.messages)
         /\ \A i \in 1..Len(wire.messages) :
              wire.messages[i].text = "elided" => wire'.messages[i] = wire.messages[i]
<1>1. Conversation!Send
  BY DEF Conversation!Next, Conversation!Answer, requestVars
<1>2. wire'.messages = Conversation!Elide(history) /\ history \in Seq(Messages) /\ Len(history) \in Nat /\ keep \in Nat
  BY <1>1, RequestsAssumption, LenProperties DEF Conversation!Send, RequestInv, Conversation!RequestAssumption
<1>3. CASE wire.messages = <<>>
  <2>1. Len(wire.messages) = 0 /\ 1..Len(wire.messages) = {}
    BY <1>3
  <2>2. Conversation!IsPrefix(<<>>, Conversation!Elide(history))
    <3>1. /\ Conversation!Elide(history) \in Seq({Conversation!Elide(history)[i] : i \in 1..Len(history)})
          /\ Len(Conversation!Elide(history)) = Len(history)
      BY <1>2, ElideIs, Zenon
    <3>2. <<>> \in Seq({Conversation!Elide(history)[i] : i \in 1..Len(history)}) /\ Len(<<>>) = 0
          /\ 0 <= Len(Conversation!Elide(history)) /\ 1..0 = {}
      BY <1>2, <3>1
    <3> QED
      BY <3>1, <3>2, PrefixIs
  <2> QED
    BY <1>2, <1>3, <2>1, <2>2
<1>4. ASSUME NEW n \in 2..Len(history),
             wire.messages = Conversation!Elide(Begin(n)),
             Begin(n) \in Seq(Messages), Len(Begin(n)) = n, n \in Nat,
             \A i \in 1..n : Begin(n)[i] = history[i] /\ history[i] \in Messages,
             Len(wire.messages) = n, n <= Len(history)
      PROVE  /\ keep = 0 => Conversation!IsPrefix(wire.messages, wire'.messages)
             /\ \A i \in 1..Len(wire.messages) :
                  wire.messages[i].text = "elided" => wire'.messages[i] = wire.messages[i]
  <2>1. CASE keep = 0
    <3>1. wire.messages = Begin(n) /\ wire'.messages = history
      BY <1>2, <1>4, <2>1, NothingStale
    <3>2. Conversation!IsPrefix(wire.messages, wire'.messages)
      BY <1>2, <1>4, <3>1, PrefixIs
    <3>3. \A i \in 1..Len(wire.messages) : wire'.messages[i] = wire.messages[i]
      BY <1>4, <3>1
    <3> QED
      BY <3>2, <3>3
  <2>2. CASE keep # 0
    <3>1. ASSUME NEW i \in 1..n, wire.messages[i].text = "elided"
          PROVE  wire'.messages[i] = wire.messages[i]
      <4>1. Conversation!IsStale(Begin(n), i)
        <5>1. history[i].text # "elided" /\ Begin(n)[i] = history[i]
          BY <1>4, MessageFields DEF Conversation!Texts
        <5>2. wire.messages[i].text = IF Conversation!IsStale(Begin(n), i) THEN "elided" ELSE Begin(n)[i].text
          <6>1. i \in 1..Len(Begin(n))
            BY <1>4, SMTT(30)
          <6>2. Conversation!Elide(Begin(n))[i].text =
                  IF Conversation!IsStale(Begin(n), i) THEN "elided" ELSE Begin(n)[i].text
            BY <1>4, <6>1, ElideIs, Zenon
          <6> QED
            BY <1>4, <6>2, Zenon
        <5> QED
          BY <3>1, <5>1, <5>2
      <4>2. Begin(n)[i].role = "tool" /\ Begin(n)[i] = history[i]
        BY <1>4, <4>1 DEF Conversation!IsStale
      <4>3. i \in 1..Len(history)
        BY <1>2, <1>4
      <4>4. PICK h \in 1..(i - 1) : \E j \in DOMAIN history[h].calls : history[h].calls[j].id = history[i].id
        BY <4>2, <4>3 DEF RequestInv
      <4>5. h \in 1..n
        BY <1>4
      <4>6. \E k \in 1..Len(Begin(n)) : \E j \in DOMAIN Begin(n)[k].calls : Begin(n)[k].calls[j].id = Begin(n)[i].id
        BY <1>4, <4>2, <4>4, <4>5
      <4>7. Extends(Begin(n), history)
        BY <1>4 DEF Extends
      <4>8. Conversation!Elide(history)[i] = Conversation!Elide(Begin(n))[i]
        BY <1>2, <1>4, <4>1, <4>6, <4>7, ElideGrows, SMTT(30)
      <4> QED
        BY <1>2, <1>4, <4>8
    <3> QED
      BY <1>4, <2>2, <3>1
  <2> QED
    BY <2>1, <2>2
<1> QED
  BY <1>3, <1>4, WireIs

----------------------------------------------------------------------------
(* The files of a repository and the tools that touch them.                *)

LEMMA Alone == ASSUME NEW S, NEW x \in S PROVE <<x>> \in Seq(S) /\ Len(<<x>>) = 1 /\ <<x>>[1] = x
  OBVIOUS

\* What a path may lead to, NoLoc among it.
Parts == STRING \cup {"no location"}
Paths == Seq(Parts)

LEMMA StepIsPath ==
  ASSUME NEW loc \in Paths, NEW name \in Parts
  PROVE  /\ loc # <<>> => Tools!Front(loc) \in Paths
         /\ Append(loc, name) \in Paths /\ Tools!NoLoc \in Paths
         /\ Tools!Enter(loc, name) \in Paths /\ Tools!Count(loc, name) \in Paths
<1>1. Tools!NoLoc \in Paths /\ Append(loc, name) \in Paths
  <2>1. <<"no location">> \in Paths
    <3>1. "no location" \in Parts
      BY Zenon DEF Parts
    <3> QED
      BY <3>1, Alone, Zenon DEF Paths
  <2>2. Append(loc, name) \in Seq(Parts)
    BY AppendProperties DEF Paths
  <2> QED
    BY <2>1, <2>2, Zenon DEF Tools!NoLoc, Paths
<1>2. ASSUME loc # <<>> PROVE Tools!Front(loc) \in Paths
  <2>1. Len(loc) \in Nat /\ Len(loc) # 0
    BY <1>2, LenProperties, EmptySeq DEF Paths
  <2>2. Len(loc) - 1 \in 0..Len(loc)
    BY <2>1
  <2>3. SubSeq(loc, 1, Len(loc) - 1) \in Paths
    BY <2>2, Taken DEF Paths
  <2> QED
    BY <2>3 DEF Tools!Front
<1> QED
  BY <1>1, <1>2, Zenon DEF Tools!Enter, Tools!Count

LEMMA CountedIs ==
  ASSUME NEW raw \in Paths
  PROVE  \E w \in [0..Len(raw) -> Paths] :
           /\ w[0] = <<>> /\ \A n \in 1..Len(raw) : w[n] = Tools!Count(w[n - 1], raw[n])
           /\ Tools!Counted(raw) = w[Len(raw)]
<1> DEFINE N == Len(raw)
           P(n, loc) == Tools!Count(loc, raw[n])
           step == [x \in (1..N) \X Paths |-> P(x[1], x[2])]
           u == CHOOSE walk : walk = [n \in 0..N |-> IF n = 0 THEN <<>> ELSE P(n, walk[n - 1])]
<1>1. N \in Nat /\ (\A n \in 1..N : raw[n] \in Parts) /\ <<>> \in Paths
  BY LenProperties, ElementOfSeq DEF Paths
<1>2. \A n \in 1..N, loc \in Paths : P(n, loc) \in Paths
  BY <1>1, StepIsPath
<1>3. Tools!Counted(raw) = u[N]
  BY DEF Tools!Counted
<1> HIDE DEF P
<1>4. Step(step, N, Paths)
  BY <1>2 DEF Step
<1> HIDE DEF step
<1>5. PICK f : Iterates(f, N, Paths, <<>>, step)
  BY <1>1, <1>4, Recursion
<1>6. f \in [0..N -> Paths] /\ f[0] = <<>> /\ \A n \in 1..N : f[n] = P(n, f[n - 1])
  <2>1. \A n \in 1..N : n - 1 \in 0..N
    BY <1>1
  <2>2. \A n \in 1..N : <<n, f[n - 1]>> \in (1..N) \X Paths
    BY <1>5, <2>1 DEF Iterates
  <2>3. \A n \in 1..N : step[<<n, f[n - 1]>>] = P(n, f[n - 1])
    BY <2>2 DEF step
  <2> QED
    BY <1>5, <2>3 DEF Iterates
<1>7. f = [n \in 0..N |-> IF n = 0 THEN <<>> ELSE P(n, f[n - 1])]
  <2>1. f = [n \in 0..N |-> f[n]]
    BY <1>6
  <2>2. \A n \in 0..N : f[n] = IF n = 0 THEN <<>> ELSE P(n, f[n - 1])
    BY <1>1, <1>6
  <2> QED
    BY <2>1, <2>2, Zenon
<1>8. u = [n \in 0..N |-> IF n = 0 THEN <<>> ELSE P(n, u[n - 1])]
  BY <1>7, Zenon
<1> HIDE DEF u
<1>9. u[0] = <<>> /\ \A n \in 1..N : u[n] = P(n, u[n - 1])
  <2>1. \A n \in 0..N : u[n] = IF n = 0 THEN <<>> ELSE P(n, u[n - 1])
    BY <1>8, Zenon
  <2> QED
    BY <1>1, <2>1
<1>10. \A n \in 0..N : u[n] = f[n]
  <2>1. \A n \in 1..N : u[n - 1] = f[n - 1] => u[n] = f[n]
    BY <1>6, <1>9
  <2>2. u[0] = f[0]
    BY <1>6, <1>9
  <2> HIDE DEF N
  <2>3. Together(u, f, N)
    BY <2>1, <2>2 DEF Together
  <2> QED
    BY <1>1, <2>3, Lockstep
<1>11. u[N] = f[N]
  BY <1>1, <1>10
<1> QED
  BY <1>3, <1>6, <1>11 DEF P

LEMMA ResolvedIs ==
  ASSUME NEW raw \in Paths
  PROVE  \E w \in [0..Len(raw) -> Paths] :
           /\ w[0] = <<>> /\ \A n \in 1..Len(raw) : w[n] = Tools!Enter(w[n - 1], raw[n])
           /\ Tools!Resolve(raw) = w[Len(raw)]
<1> DEFINE N == Len(raw)
           P(n, loc) == Tools!Enter(loc, raw[n])
           step == [x \in (1..N) \X Paths |-> P(x[1], x[2])]
           u == CHOOSE walk : walk = [n \in 0..N |-> IF n = 0 THEN <<>> ELSE P(n, walk[n - 1])]
<1>1. N \in Nat /\ (\A n \in 1..N : raw[n] \in Parts) /\ <<>> \in Paths
  BY LenProperties, ElementOfSeq DEF Paths
<1>2. \A n \in 1..N, loc \in Paths : P(n, loc) \in Paths
  BY <1>1, StepIsPath
<1>3. Tools!Resolve(raw) = u[N]
  BY DEF Tools!Resolve
<1> HIDE DEF P
<1>4. Step(step, N, Paths)
  BY <1>2 DEF Step
<1> HIDE DEF step
<1>5. PICK f : Iterates(f, N, Paths, <<>>, step)
  BY <1>1, <1>4, Recursion
<1>6. f \in [0..N -> Paths] /\ f[0] = <<>> /\ \A n \in 1..N : f[n] = P(n, f[n - 1])
  <2>1. \A n \in 1..N : n - 1 \in 0..N
    BY <1>1
  <2>2. \A n \in 1..N : <<n, f[n - 1]>> \in (1..N) \X Paths
    BY <1>5, <2>1 DEF Iterates
  <2>3. \A n \in 1..N : step[<<n, f[n - 1]>>] = P(n, f[n - 1])
    BY <2>2 DEF step
  <2> QED
    BY <1>5, <2>3 DEF Iterates
<1>7. f = [n \in 0..N |-> IF n = 0 THEN <<>> ELSE P(n, f[n - 1])]
  <2>1. f = [n \in 0..N |-> f[n]]
    BY <1>6
  <2>2. \A n \in 0..N : f[n] = IF n = 0 THEN <<>> ELSE P(n, f[n - 1])
    BY <1>1, <1>6
  <2> QED
    BY <2>1, <2>2, Zenon
<1>8. u = [n \in 0..N |-> IF n = 0 THEN <<>> ELSE P(n, u[n - 1])]
  BY <1>7, Zenon
<1> HIDE DEF u
<1>9. u[0] = <<>> /\ \A n \in 1..N : u[n] = P(n, u[n - 1])
  <2>1. \A n \in 0..N : u[n] = IF n = 0 THEN <<>> ELSE P(n, u[n - 1])
    BY <1>8, Zenon
  <2> QED
    BY <1>1, <2>1
<1>10. \A n \in 0..N : u[n] = f[n]
  <2>1. \A n \in 1..N : u[n - 1] = f[n - 1] => u[n] = f[n]
    BY <1>6, <1>9
  <2>2. u[0] = f[0]
    BY <1>6, <1>9
  <2> HIDE DEF N
  <2>3. Together(u, f, N)
    BY <2>1, <2>2 DEF Together
  <2> QED
    BY <1>1, <2>3, Lockstep
<1>11. u[N] = f[N]
  BY <1>1, <1>10
<1> QED
  BY <1>3, <1>6, <1>11 DEF P

\* What a walk meets, up to each location it comes by.
Places == Seq(FileLocs)

LEMMA MetIs ==
  ASSUME NEW some
  PROVE  \E w \in [0..Len(WalkOrder) -> Places] :
           /\ w[0] = <<>>
           /\ \A n \in 1..Len(WalkOrder) :
                w[n] = IF WalkOrder[n] \in some THEN Append(w[n - 1], WalkOrder[n]) ELSE w[n - 1]
           /\ Tools!Found(some) = w[Len(WalkOrder)]
<1> DEFINE N == Len(WalkOrder)
           P(n, locs) == IF WalkOrder[n] \in some THEN Append(locs, WalkOrder[n]) ELSE locs
           step == [x \in (1..N) \X Places |-> P(x[1], x[2])]
           u == CHOOSE walk : walk = [n \in 0..N |-> IF n = 0 THEN <<>> ELSE P(n, walk[n - 1])]
<1>1. N \in Nat /\ (\A n \in 1..N : WalkOrder[n] \in FileLocs) /\ <<>> \in Places
  BY FilesAssumption, LenProperties, ElementOfSeq DEF Places, Tools!FileAssumption
<1>2. \A n \in 1..N, locs \in Places : P(n, locs) \in Places
  BY <1>1 DEF Places
<1>3. Tools!Found(some) = u[N]
  BY DEF Tools!Found
<1> HIDE DEF P
<1>4. Step(step, N, Places)
  BY <1>2 DEF Step
<1> HIDE DEF step
<1>5. PICK f : Iterates(f, N, Places, <<>>, step)
  BY <1>1, <1>4, Recursion
<1>6. f \in [0..N -> Places] /\ f[0] = <<>> /\ \A n \in 1..N : f[n] = P(n, f[n - 1])
  <2>1. \A n \in 1..N : n - 1 \in 0..N
    BY <1>1
  <2>2. \A n \in 1..N : <<n, f[n - 1]>> \in (1..N) \X Places
    BY <1>5, <2>1 DEF Iterates
  <2>3. \A n \in 1..N : step[<<n, f[n - 1]>>] = P(n, f[n - 1])
    BY <2>2 DEF step
  <2> QED
    BY <1>5, <2>3 DEF Iterates
<1>7. f = [n \in 0..N |-> IF n = 0 THEN <<>> ELSE P(n, f[n - 1])]
  <2>1. f = [n \in 0..N |-> f[n]]
    BY <1>6
  <2>2. \A n \in 0..N : f[n] = IF n = 0 THEN <<>> ELSE P(n, f[n - 1])
    BY <1>1, <1>6
  <2> QED
    BY <2>1, <2>2, Zenon
<1>8. u = [n \in 0..N |-> IF n = 0 THEN <<>> ELSE P(n, u[n - 1])]
  BY <1>7, Zenon
<1> HIDE DEF u
<1>9. u[0] = <<>> /\ \A n \in 1..N : u[n] = P(n, u[n - 1])
  <2>1. \A n \in 0..N : u[n] = IF n = 0 THEN <<>> ELSE P(n, u[n - 1])
    BY <1>8, Zenon
  <2> QED
    BY <1>1, <2>1
<1>10. \A n \in 0..N : u[n] = f[n]
  <2>1. \A n \in 1..N : u[n - 1] = f[n - 1] => u[n] = f[n]
    BY <1>6, <1>9
  <2>2. u[0] = f[0]
    BY <1>6, <1>9
  <2> HIDE DEF N
  <2>3. Together(u, f, N)
    BY <2>1, <2>2 DEF Together
  <2> QED
    BY <1>1, <2>3, Lockstep
<1>11. u[N] = f[N]
  BY <1>1, <1>10
<1> QED
  BY <1>3, <1>6, <1>11 DEF P


\* A listing holds the locations that were asked for, each of them.
LEMMA FoundAre ==
  ASSUME NEW some
  PROVE  /\ Tools!Found(some) \in Places
         /\ \A i \in 1..Len(Tools!Found(some)) : Tools!Found(some)[i] \in some
         /\ \A l \in FileLocs \cap some : \E i \in 1..Len(Tools!Found(some)) : Tools!Found(some)[i] = l
<1> DEFINE N == Len(WalkOrder)
<1>1. WalkOrder \in Seq(FileLocs) /\ N \in Nat /\ \A n \in 1..N : WalkOrder[n] \in FileLocs
  BY FilesAssumption, LenProperties, ElementOfSeq DEF Tools!FileAssumption
<1>2. \A l \in FileLocs : \E n \in 1..N : WalkOrder[n] = l
  BY FilesAssumption, <1>1 DEF Tools!FileAssumption, Tools!Range
<1>3. PICK w \in [0..N -> Places] :
        /\ w[0] = <<>>
        /\ \A n \in 1..N : w[n] = IF WalkOrder[n] \in some THEN Append(w[n - 1], WalkOrder[n]) ELSE w[n - 1]
        /\ Tools!Found(some) = w[N]
  BY MetIs
<1> HIDE DEF N
<1> DEFINE Good(n) == /\ \A i \in 1..Len(w[n]) : w[n][i] \in some
                      /\ \A m \in 1..n : WalkOrder[m] \in some => \E i \in 1..Len(w[n]) : w[n][i] = WalkOrder[m]
           I == {n \in Nat : n <= N => Good(n)}
<1>4. 0 \in I
  <2>1. Len(w[0]) = 0 /\ 1..0 = {}
    BY <1>3
  <2> QED
    BY <2>1
<1>5. ASSUME NEW n \in I PROVE n + 1 \in I
  <2> SUFFICES ASSUME n + 1 <= N PROVE Good(n + 1)
    OBVIOUS
  <2>1. n \in Nat /\ n + 1 \in 1..N /\ (n + 1) - 1 = n /\ n \in 0..N /\ Good(n)
    BY <1>1, <1>5, SMTT(30)
  <2>2. w[n + 1] = IF WalkOrder[n + 1] \in some THEN Append(w[n], WalkOrder[n + 1]) ELSE w[n]
    BY <1>3, <2>1
  <2>3. w[n] \in Seq(FileLocs) /\ Len(w[n]) \in Nat
    BY <1>3, <2>1, LenProperties DEF Places
  <2>4. \A m \in 1..(n + 1) : m \in 1..n \/ m = n + 1
    BY <2>1
  <2> HIDE DEF Good
  <2>5. CASE WalkOrder[n + 1] \in some
    <3>1. /\ w[n + 1] = Append(w[n], WalkOrder[n + 1]) /\ Len(w[n + 1]) = Len(w[n]) + 1
          /\ \A i \in 1..Len(w[n]) : w[n + 1][i] = w[n][i]
          /\ w[n + 1][Len(w[n]) + 1] = WalkOrder[n + 1]
      <4>1. WalkOrder[n + 1] \in FileLocs
        BY <1>1, <2>1
      <4> QED
        BY <2>2, <2>3, <2>5, <4>1, AppendProperties
    <3>2. \A i \in 1..(Len(w[n]) + 1) : i \in 1..Len(w[n]) \/ i = Len(w[n]) + 1
      BY <2>3
    <3>3. Len(w[n]) + 1 \in 1..(Len(w[n]) + 1) /\ \A i \in 1..Len(w[n]) : i \in 1..(Len(w[n]) + 1)
      BY <2>3
    <3>4. \A i \in 1..Len(w[n + 1]) : w[n + 1][i] \in some
      BY <2>1, <2>5, <3>1, <3>2, Zenon DEF Good
    <3>5. ASSUME NEW m \in 1..(n + 1), WalkOrder[m] \in some
          PROVE  \E i \in 1..Len(w[n + 1]) : w[n + 1][i] = WalkOrder[m]
      <4>1. CASE m = n + 1
        BY <3>1, <3>3, <4>1
      <4>2. CASE m \in 1..n
        <5>1. PICK i \in 1..Len(w[n]) : w[n][i] = WalkOrder[m]
          BY <2>1, <3>5, <4>2, Zenon DEF Good
        <5> QED
          BY <3>1, <3>3, <5>1
      <4> QED
        BY <2>4, <4>1, <4>2
    <3> QED
      BY <3>4, <3>5, Zenon DEF Good
  <2>6. CASE WalkOrder[n + 1] \notin some
    <3>1. w[n + 1] = w[n]
      BY <2>2, <2>6
    <3> QED
      BY <2>1, <2>4, <2>6, <3>1, Zenon DEF Good
  <2> QED
    BY <2>5, <2>6
<1>6. Good(N)
  <2> HIDE DEF Good
  <2>1. I = Nat
    BY <1>4, <1>5, Induction
  <2> QED
    BY <1>1, <2>1
<1>7. N \in 0..N
  BY <1>1
<1> QED
  BY <1>2, <1>3, <1>6, <1>7

LEMMA NamesArePaths ==
  /\ Tools!Locations \subseteq Paths /\ Seq(STRING) \subseteq Paths
  /\ \A loc \in Tools!Locations : \A i \in 1..Len(loc) : loc[i] \in Parts \ {".", ".."}
  /\ Tools!NoLoc \notin Tools!Locations
<1> DEFINE Proper == STRING \ {".", "..", Tools!NoLoc[1]}
<1>1. Proper \subseteq Parts /\ STRING \subseteq Parts /\ Proper \subseteq Parts \ {".", ".."}
  BY Zenon DEF Parts
<1>2. Tools!NoLoc[1] \notin Proper
  BY Zenon
<1> HIDE DEF Proper
<1>3. Seq(Proper) \subseteq Paths /\ Seq(STRING) \subseteq Paths
  BY <1>1, SeqMonotonic, Zenon DEF Paths
<1>4. \A loc \in Seq(Proper) : \A i \in 1..Len(loc) : loc[i] \in Proper
  BY ElementOfSeq
<1>5. Tools!NoLoc \notin Seq(Proper)
  <2> SUFFICES ASSUME Tools!NoLoc \in Seq(Proper) PROVE FALSE
    OBVIOUS
  <2>1. Len(Tools!NoLoc) = 1
    BY Alone, Zenon DEF Tools!NoLoc
  <2> QED
    BY <1>2, <1>4, <2>1
<1>6. Tools!Locations = Seq(Proper)
  BY DEF Tools!Locations, Proper
<1> QED
  BY <1>1, <1>3, <1>4, <1>5, <1>6

\* Looking up what a path names leads where counting leads, or nowhere.
LEMMA LookedUpIsCounted ==
  ASSUME NEW raw \in Paths, Tools!NoLoc \notin dirs
  PROVE  Tools!Resolve(raw) \in {Tools!Counted(raw), Tools!NoLoc}
<1> DEFINE N == Len(raw)
<1>1. N \in Nat /\ \A n \in 1..N : raw[n] \in Parts
  BY LenProperties, ElementOfSeq DEF Paths
<1>2. PICK w \in [0..N -> Paths] :
        /\ w[0] = <<>> /\ \A n \in 1..N : w[n] = Tools!Enter(w[n - 1], raw[n])
        /\ Tools!Resolve(raw) = w[N]
  BY ResolvedIs
<1>3. PICK c \in [0..N -> Paths] :
        /\ c[0] = <<>> /\ \A n \in 1..N : c[n] = Tools!Count(c[n - 1], raw[n])
        /\ Tools!Counted(raw) = c[N]
  BY CountedIs
<1> HIDE DEF N
<1>4. \A name : Tools!Enter(Tools!NoLoc, name) = Tools!NoLoc
  BY DEF Tools!Enter
<1>5. \A loc, name : Tools!Enter(loc, name) \in {Tools!Count(loc, name), Tools!NoLoc}
  BY Zenon DEF Tools!Enter, Tools!Count
<1> DEFINE I == {n \in Nat : n <= N => w[n] \in {c[n], Tools!NoLoc}}
<1>6. 0 \in I
  BY <1>2, <1>3
<1>7. ASSUME NEW n \in I PROVE n + 1 \in I
  <2> SUFFICES ASSUME n + 1 <= N PROVE w[n + 1] \in {c[n + 1], Tools!NoLoc}
    OBVIOUS
  <2>1. n + 1 \in 1..N /\ (n + 1) - 1 = n /\ w[n] \in {c[n], Tools!NoLoc}
    BY <1>1, <1>7
  <2>2. w[n + 1] = Tools!Enter(w[n], raw[n + 1]) /\ c[n + 1] = Tools!Count(c[n], raw[n + 1])
    BY <1>2, <1>3, <2>1
  <2> QED
    BY <1>4, <1>5, <2>1, <2>2
<1>8. I = Nat
  BY <1>6, <1>7, Induction
<1>9. w[N] \in {c[N], Tools!NoLoc}
  BY <1>1, <1>8
<1> QED
  BY <1>2, <1>3, <1>9

LEMMA TakenTwice ==
  ASSUME NEW S, NEW loc \in Seq(S), NEW n \in 0..Len(loc), NEW m \in 0..n
  PROVE  /\ SubSeq(loc, 1, n) \in Seq(S) /\ Len(SubSeq(loc, 1, n)) = n
         /\ SubSeq(SubSeq(loc, 1, n), 1, m) = SubSeq(loc, 1, m)
<1> DEFINE p == SubSeq(loc, 1, n)
<1>1. Len(loc) \in Nat /\ n \in Nat /\ m \in Nat
  BY LenProperties
<1>2. p \in Seq(S) /\ Len(p) = n /\ \A i \in 1..n : p[i] = loc[i]
  BY Taken
<1> HIDE DEF p
<1>3. m \in 0..Len(p) /\ m \in 0..Len(loc)
  BY <1>1, <1>2
<1>4. /\ SubSeq(p, 1, m) \in Seq(S) /\ Len(SubSeq(p, 1, m)) = m
      /\ \A i \in 1..m : SubSeq(p, 1, m)[i] = p[i]
  BY <1>2, <1>3, Taken
<1>5. /\ SubSeq(loc, 1, m) \in Seq(S) /\ Len(SubSeq(loc, 1, m)) = m
      /\ \A i \in 1..m : SubSeq(loc, 1, m)[i] = loc[i]
  BY <1>3, Taken
<1>6. \A i \in 1..m : i \in 1..n
  BY <1>1
<1>7. SubSeq(p, 1, m) = SubSeq(loc, 1, m)
  BY <1>2, <1>4, <1>5, <1>6, SeqEqual
<1> QED
  BY <1>2, <1>7 DEF p

LEMMA ParentsAre ==
  ASSUME NEW S, NEW loc \in Seq(S)
  PROVE  /\ \A n \in 0..(Len(loc) - 1) : SubSeq(loc, 1, n) \in Tools!Parents(loc)
         /\ \A p \in Tools!Parents(loc) :
              p \in Seq(S) /\ Tools!Parents(p) \subseteq Tools!Parents(loc)
<1>1. Len(loc) \in Nat
  BY LenProperties
<1>2. \A n \in 0..(Len(loc) - 1) : SubSeq(loc, 1, n) \in Tools!Parents(loc)
  BY DEF Tools!Parents
<1>3. ASSUME NEW p \in Tools!Parents(loc)
      PROVE  p \in Seq(S) /\ Tools!Parents(p) \subseteq Tools!Parents(loc)
  <2>1. PICK n \in 0..(Len(loc) - 1) : p = SubSeq(loc, 1, n)
    BY DEF Tools!Parents
  <2>2. n \in 0..Len(loc) /\ n \in Nat
    BY <1>1
  <2>3. p \in Seq(S) /\ Len(p) = n
    BY <2>1, <2>2, Taken
  <2>4. ASSUME NEW m \in 0..(n - 1) PROVE SubSeq(p, 1, m) \in Tools!Parents(loc)
    <3>1. m \in 0..n /\ m \in 0..(Len(loc) - 1)
      BY <1>1, <2>2
    <3>2. SubSeq(p, 1, m) = SubSeq(loc, 1, m)
      BY <2>1, <2>2, <3>1, TakenTwice
    <3> QED
      BY <1>2, <3>1, <3>2
  <2> QED
    BY <2>3, <2>4 DEF Tools!Parents
<1> QED
  BY <1>2, <1>3

\* A location that is there, by way of directories that are there, names itself.
LEMMA LocationNamesItself ==
  ASSUME NEW loc \in Tools!Locations, Tools!Parents(loc) \subseteq dirs, loc \in dirs \/ Tools!IsFile(loc)
  PROVE  Tools!Resolve(loc) = loc
<1> DEFINE N == Len(loc)
           P(n) == SubSeq(loc, 1, n)
<1>1. loc \in Paths /\ N \in Nat /\ \A n \in 1..N : loc[n] \in Parts \ {".", ".."}
  BY NamesArePaths, LenProperties DEF Paths
<1>2. PICK w \in [0..N -> Paths] :
        /\ w[0] = <<>> /\ \A n \in 1..N : w[n] = Tools!Enter(w[n - 1], loc[n])
        /\ Tools!Resolve(loc) = w[N]
  BY <1>1, ResolvedIs
<1>3. \A n \in 0..N : P(n) \in Paths /\ Len(P(n)) = n /\ \A i \in 1..n : P(n)[i] = loc[i]
  BY <1>1, Taken DEF Paths
<1>4. \A n \in 0..(N - 1) : P(n) \in dirs
  BY <1>1, ParentsAre DEF Paths
<1> HIDE DEF P, N
<1>5. P(N) = loc /\ P(0) = <<>>
  <2>1. P(N) = loc
    <3>1. N \in 0..N /\ Len(loc) = N
      BY <1>1 DEF N
    <3> QED
      BY <1>1, <1>3, <3>1, SeqEqual DEF Paths
  <2>2. P(0) \in Seq(Parts) /\ Len(P(0)) = 0
    BY <1>1, <1>3 DEF Paths
  <2> QED
    BY <2>1, <2>2, EmptySeq
<1>6. ASSUME NEW n \in 0..N, n + 1 <= N
      PROVE  Append(P(n), loc[n + 1]) = P(n + 1)
  <2>1. n + 1 \in 1..N /\ n + 1 \in 0..N /\ n \in Nat
    BY <1>1, <1>6
  <2>2. P(n) \in Seq(Parts) /\ Len(P(n)) = n /\ loc[n + 1] \in Parts
    BY <1>1, <1>3, <2>1 DEF Paths
  <2>3. /\ Append(P(n), loc[n + 1]) \in Seq(Parts) /\ Len(Append(P(n), loc[n + 1])) = n + 1
        /\ \A i \in 1..n : Append(P(n), loc[n + 1])[i] = P(n)[i]
        /\ Append(P(n), loc[n + 1])[n + 1] = loc[n + 1]
    BY <2>2, AppendProperties
  <2>4. P(n + 1) \in Seq(Parts) /\ Len(P(n + 1)) = n + 1 /\ \A i \in 1..(n + 1) : P(n + 1)[i] = loc[i]
    BY <1>3, <2>1 DEF Paths
  <2>5. \A i \in 1..(n + 1) : Append(P(n), loc[n + 1])[i] = P(n + 1)[i]
    <3>1. \A i \in 1..(n + 1) : i \in 1..n \/ i = n + 1
      BY <2>1
    <3>2. \A i \in 1..n : P(n)[i] = loc[i]
      BY <1>3
    <3> QED
      BY <2>3, <2>4, <3>1, <3>2
  <2> QED
    BY <2>3, <2>4, <2>5, SeqEqual
<1>7. ASSUME NEW n \in 0..N, n + 1 <= N
      PROVE  Tools!Enter(P(n), loc[n + 1]) = P(n + 1)
  <2>1. n \in 0..(N - 1) /\ n + 1 \in 1..N
    BY <1>1, <1>7
  <2>2. P(n) \in dirs /\ loc[n + 1] # "." /\ loc[n + 1] # ".."
    BY <1>1, <1>4, <2>1
  <2>3. P(n + 1) \in dirs \/ Tools!IsFile(P(n + 1))
    <3>1. CASE n + 1 = N
      BY <1>5, <3>1
    <3>2. CASE n + 1 # N
      <4>1. n + 1 \in 0..(N - 1)
        BY <1>1, <1>7, <3>2
      <4> QED
        BY <1>4, <4>1
    <3> QED
      BY <3>1, <3>2
  <2> QED
    BY <1>6, <1>7, <2>2, <2>3, Zenon DEF Tools!Enter
<1> DEFINE I == {n \in Nat : n <= N => w[n] = P(n)}
<1>8. 0 \in I
  BY <1>2, <1>5
<1>9. ASSUME NEW n \in I PROVE n + 1 \in I
  <2> SUFFICES ASSUME n + 1 <= N PROVE w[n + 1] = P(n + 1)
    OBVIOUS
  <2>1. n \in 0..N /\ n + 1 \in 1..N /\ (n + 1) - 1 = n /\ w[n] = P(n)
    BY <1>1, <1>9
  <2>2. w[n + 1] = Tools!Enter(w[n], loc[n + 1])
    BY <1>2, <2>1
  <2> QED
    BY <1>7, <2>1, <2>2
<1>10. I = Nat
  BY <1>8, <1>9, Induction
<1>11. w[N] = P(N)
  BY <1>1, <1>10
<1> QED
  BY <1>2, <1>5, <1>11

----------------------------------------------------------------------------
\* The larger of two numbers, and the smaller.
LEMMA OfTwo ==
  ASSUME NEW x \in Int, NEW y \in Int
  PROVE  /\ Tools!Max({x, y}) = IF x >= y THEN x ELSE y
         /\ Tools!Min({x, y}) = IF x <= y THEN x ELSE y
<1>1. \A m \in {x, y} : (\A n \in {x, y} : m >= n) => m = IF x >= y THEN x ELSE y
  OBVIOUS
<1>2. LET m == IF x >= y THEN x ELSE y IN m \in {x, y} /\ \A n \in {x, y} : m >= n
  OBVIOUS
<1>3. \A m \in {x, y} : (\A n \in {x, y} : m <= n) => m = IF x <= y THEN x ELSE y
  OBVIOUS
<1>4. LET m == IF x <= y THEN x ELSE y IN m \in {x, y} /\ \A n \in {x, y} : m <= n
  OBVIOUS
<1>5. Tools!Max({x, y}) = IF x >= y THEN x ELSE y
  BY <1>1, <1>2 DEF Tools!Max
<1>6. Tools!Min({x, y}) = IF x <= y THEN x ELSE y
  BY <1>3, <1>4 DEF Tools!Min
<1> QED
  BY <1>5, <1>6

LineEnds == Nat \cup {Tools!Open}

LEMMA BodyIs ==
  ASSUME NEW body \in Tools!Bodies
  PROVE  /\ Len(body) \in Nat
         /\ \A i \in 1..Len(body) : body[i] = <<body[i][1], body[i][2]>> /\ body[i][1] \in DOMAIN Size
                                    /\ body[i][2] \in LineEnds
<1>1. Len(body) \in Nat /\ \A i \in 1..Len(body) : body[i] \in (DOMAIN Size) \X LineEnds
  BY LenProperties, ElementOfSeq DEF Tools!Bodies, LineEnds
<1> QED
  BY <1>1

\* What comes of a line's end when carriage returns are added or taken away.
Ended(cr, n) == IF cr = Tools!Open THEN Tools!Open ELSE IF cr + n <= 0 THEN 0 ELSE cr + n

LEMMA ReturnsAdded ==
  ASSUME NEW body \in Tools!Bodies, NEW n \in Int
  PROVE  /\ Tools!AddReturns(body, n) \in Tools!Bodies
         /\ Len(Tools!AddReturns(body, n)) = Len(body)
         /\ \A i \in 1..Len(body) : Tools!AddReturns(body, n)[i] = <<body[i][1], Ended(body[i][2], n)>>
<1>1. /\ Len(body) \in Nat
      /\ \A i \in 1..Len(body) : body[i] = <<body[i][1], body[i][2]>> /\ body[i][1] \in DOMAIN Size
                                 /\ body[i][2] \in LineEnds
  BY BodyIs
<1>2. \A cr \in LineEnds : /\ Ended(cr, n) \in LineEnds
                           /\ Ended(cr, n) = IF cr = Tools!Open THEN Tools!Open ELSE Tools!Max({0, cr + n})
  <2> SUFFICES ASSUME NEW cr \in LineEnds
               PROVE  /\ Ended(cr, n) \in LineEnds
                      /\ Ended(cr, n) = IF cr = Tools!Open THEN Tools!Open ELSE Tools!Max({0, cr + n})
    OBVIOUS
  <2>1. CASE cr = Tools!Open
    BY <2>1 DEF Ended, LineEnds
  <2>2. CASE cr # Tools!Open
    <3>1. cr \in Nat /\ cr + n \in Int
      BY <2>2 DEF LineEnds
    <3>2. Tools!Max({0, cr + n}) = IF 0 >= cr + n THEN 0 ELSE cr + n
      BY <3>1, OfTwo
    <3>3. Ended(cr, n) = IF cr + n <= 0 THEN 0 ELSE cr + n
      BY <2>2 DEF Ended
    <3> QED
      BY <2>2, <3>1, <3>2, <3>3 DEF LineEnds
  <2> QED
    BY <2>1, <2>2
<1> DEFINE g == [i \in 1..Len(body) |-> <<body[i][1], Ended(body[i][2], n)>>]
<1>3. Tools!AddReturns(body, n) = g
  <2>1. \A i \in 1..Len(body) :
          <<body[i][1], IF body[i][2] = Tools!Open THEN Tools!Open ELSE Tools!Max({0, body[i][2] + n})>>
            = <<body[i][1], Ended(body[i][2], n)>>
    BY <1>1, <1>2
  <2> QED
    BY <2>1, Zenon DEF Tools!AddReturns
<1>4. g \in [1..Len(body) -> (DOMAIN Size) \X LineEnds]
  BY <1>1, <1>2
<1>5. \A i \in 1..Len(body) : g[i] = <<body[i][1], Ended(body[i][2], n)>>
  OBVIOUS
<1> HIDE DEF g
<1>6. g \in Seq((DOMAIN Size) \X LineEnds) /\ Len(g) = Len(body)
  BY <1>1, <1>4, Mapped
<1> QED
  BY <1>3, <1>5, <1>6 DEF Tools!Bodies, LineEnds

LEMMA TextsAre ==
  ASSUME NEW body \in Tools!Bodies
  PROVE  /\ Tools!Texts(body) \in Seq(DOMAIN Size) /\ Len(Tools!Texts(body)) = Len(body)
         /\ \A i \in 1..Len(body) : Tools!Texts(body)[i] = body[i][1]
         /\ \A n \in Int : Tools!Texts(Tools!AddReturns(body, n)) = Tools!Texts(body)
<1>1. /\ Len(body) \in Nat
      /\ \A i \in 1..Len(body) : body[i][1] \in DOMAIN Size
  BY BodyIs
<1>2. Tools!Texts(body) \in [1..Len(body) -> DOMAIN Size]
  BY <1>1 DEF Tools!Texts
<1>3. \A n \in Int : Tools!Texts(Tools!AddReturns(body, n)) = Tools!Texts(body)
  BY ReturnsAdded DEF Tools!Texts
<1> QED
  BY <1>1, <1>2, <1>3, Mapped DEF Tools!Texts

LEMMA SameSize == \A S : Tools!Cardinality(S) = Cardinality(S)
  BY DEF Tools!Cardinality, Cardinality

LEMMA BreaksAre ==
  ASSUME NEW body \in Tools!Bodies
  PROVE  /\ Tools!Cardinality(Tools!Breaks(body)) \in Nat
         /\ Tools!Cardinality(Tools!CrlfBreaks(body)) \in Nat
         /\ Tools!Cardinality(Tools!CrlfBreaks(body)) = 0 <=> Tools!CrlfBreaks(body) = {}
<1>1. IsFiniteSet(1..Len(body))
  BY BodyIs, FS_Interval
<1>2. Tools!Breaks(body) \subseteq 1..Len(body) /\ Tools!CrlfBreaks(body) \subseteq 1..Len(body)
  BY DEF Tools!Breaks, Tools!CrlfBreaks
<1>3. IsFiniteSet(Tools!Breaks(body)) /\ IsFiniteSet(Tools!CrlfBreaks(body))
  BY <1>1, <1>2, FS_Subset
<1> QED
  BY <1>3, FS_CardinalityType, FS_EmptySet, SameSize

\* A text with breaks of one kind is shown with line feeds and put back as it was.
LEMMA ShownIsPutBack ==
  ASSUME NEW body \in Tools!Bodies, Tools!Uniform(body)
  PROVE  IF Tools!Dominant(body) = "crlf"
         THEN Tools!AddReturns(Tools!AddReturns(body, -1), 1) = body
         ELSE Tools!AddReturns(body, -1) = body
<1> DEFINE shown == Tools!AddReturns(body, -1)
           back == Tools!AddReturns(shown, 1)
<1>1. /\ Len(body) \in Nat
      /\ \A i \in 1..Len(body) : body[i] = <<body[i][1], body[i][2]>> /\ body[i][2] \in LineEnds
  BY BodyIs
<1>2. /\ shown \in Tools!Bodies /\ Len(shown) = Len(body)
      /\ \A i \in 1..Len(body) : shown[i] = <<body[i][1], Ended(body[i][2], -1)>>
  BY ReturnsAdded
<1> HIDE DEF shown
<1>3. /\ back \in Tools!Bodies /\ Len(back) = Len(body)
      /\ \A i \in 1..Len(body) : back[i] = <<body[i][1], Ended(Ended(body[i][2], -1), 1)>>
  BY <1>2, ReturnsAdded
<1> HIDE DEF back
<1>4. PICK n \in {0, 1} : \A i \in Tools!Breaks(body) : body[i][2] = n
  BY DEF Tools!Uniform
<1>5. \A i \in 1..Len(body) : body[i][2] = Tools!Open \/ body[i][2] = n
  BY <1>4 DEF Tools!Breaks
<1>6. CASE Tools!Dominant(body) = "crlf"
  <2>1. PICK i \in Tools!CrlfBreaks(body) : TRUE
    BY <1>6 DEF Tools!Dominant
  <2>2. n = 1
    BY <1>4, <2>1 DEF Tools!CrlfBreaks
  <2>3. Ended(Ended(1, -1), 1) = 1 /\ Ended(Ended(Tools!Open, -1), 1) = Tools!Open
    BY DEF Ended, Tools!Open
  <2>4. \A j \in 1..Len(body) : back[j] = body[j]
    BY <1>1, <1>3, <1>5, <2>2, <2>3
  <2>5. back = body
    BY <1>3, <2>4, SeqEqual DEF Tools!Bodies
  <2> QED
    BY <1>6, <2>5 DEF back, shown
<1>7. CASE Tools!Dominant(body) # "crlf"
  <2>1. \A i \in 1..Len(body) : body[i][2] = Tools!Open \/ body[i][2] = 0
    <3>1. CASE n = 0
      BY <1>5, <3>1
    <3>2. CASE n = 1
      <4>1. Tools!CrlfBreaks(body) = Tools!Breaks(body)
        BY <1>4, <3>2 DEF Tools!CrlfBreaks
      <4>2. Tools!CrlfBreaks(body) = {}
        <5>1. 2 * Tools!Cardinality(Tools!Breaks(body)) >= Tools!Cardinality(Tools!Breaks(body))
          BY BreaksAre
        <5> QED
          BY <1>7, <4>1, <5>1 DEF Tools!Dominant
      <4> QED
        BY <4>1, <4>2 DEF Tools!Breaks
    <3> QED
      BY <3>1, <3>2
  <2>2. Ended(0, -1) = 0 /\ Ended(Tools!Open, -1) = Tools!Open
    BY DEF Ended, Tools!Open
  <2>3. \A j \in 1..Len(body) : shown[j] = body[j]
    BY <1>1, <1>2, <2>1, <2>2
  <2>4. shown = body
    BY <1>2, <2>3, SeqEqual DEF Tools!Bodies
  <2> QED
    BY <1>7, <2>4 DEF shown
<1> QED
  BY <1>6, <1>7

\* Line feeds take the kind of break that most of the file's breaks have.
LEMMA FeedsFollow ==
  ASSUME NEW body \in Tools!Bodies, NEW content \in Tools!Bodies, Tools!CrlfBreaks(content) = {},
         NEW put, put = IF Tools!Dominant(body) = "crlf" THEN Tools!AddReturns(content, 1) ELSE content
  PROVE  /\ 2 * Tools!Cardinality(Tools!CrlfBreaks(body)) < Tools!Cardinality(Tools!Breaks(body))
              => Tools!CrlfBreaks(put) = {}
         /\ 2 * Tools!Cardinality(Tools!CrlfBreaks(body)) > Tools!Cardinality(Tools!Breaks(body))
              => Tools!CrlfBreaks(put) = Tools!Breaks(put)
<1>1. ASSUME 2 * Tools!Cardinality(Tools!CrlfBreaks(body)) < Tools!Cardinality(Tools!Breaks(body))
      PROVE  Tools!CrlfBreaks(put) = {}
  <2>1. Tools!Dominant(body) = "lf"
    BY <1>1, BreaksAre DEF Tools!Dominant
  <2> QED
    BY <2>1
<1>2. ASSUME 2 * Tools!Cardinality(Tools!CrlfBreaks(body)) > Tools!Cardinality(Tools!Breaks(body))
      PROVE  Tools!CrlfBreaks(put) = Tools!Breaks(put)
  <2>1. Tools!CrlfBreaks(body) # {}
    BY <1>2, BreaksAre
  <2>2. Tools!Dominant(body) = "crlf"
    BY <1>2, <2>1, BreaksAre DEF Tools!Dominant
  <2>3. put = Tools!AddReturns(content, 1)
    BY <2>2
  <2>4. /\ Len(put) = Len(content)
        /\ \A i \in 1..Len(content) : put[i] = <<content[i][1], Ended(content[i][2], 1)>>
    BY <2>3, ReturnsAdded
  <2>5. \A i \in 1..Len(content) : content[i][2] \in LineEnds
    BY BodyIs
  <2>6. \A cr \in LineEnds : Ended(cr, 1) # Tools!Open => Ended(cr, 1) > 0
    BY DEF LineEnds, Ended, Tools!Open
  <2>7. \A i \in Tools!Breaks(put) : put[i][2] > 0
    BY <2>4, <2>5, <2>6 DEF Tools!Breaks
  <2> QED
    BY <2>7 DEF Tools!CrlfBreaks
<1> QED
  BY <1>1, <1>2

----------------------------------------------------------------------------
\* What holds of the repository whatever calls are made: the directories on the
\* way to what is there are there, and no file is ever lost.
FilesShape ==
  /\ Tools!TypeOK
  /\ dirs \subseteq Tools!Locations
  /\ \A loc \in dirs : Tools!Parents(loc) \subseteq dirs
  /\ \A loc \in FileLocs : (\A d \in Disks0 : d[loc].file) => disk[loc].file

Call(c) == c \in Calls /\ c.tool \in Tools!Names /\ Tools!Parses(c)

\* What an answer says of the file it was made of: what was written is where the
\* path leads by counting, a page is what PagesAddUp says, and a listing holds files
\* that are there, and below its cap all of them.
Exact(c, v) ==
  /\ c.tool = "write_file" =>
       /\ v.wrote \in FileLocs /\ v.wrote = Tools!Counted(c.raw)
       /\ Tools!Texts(Tools!ReadForModel(disk[v.wrote]).content) = Tools!Texts(c.content)
  /\ c.tool = "read_file" =>
       LET lines == Tools!Texts(disk[Tools!Resolve(c.raw)].body)
           end   == IF c.to <= 0 THEN Len(lines) ELSE Tools!Min({c.to, Len(lines)})
           next  == v.page.lo + Len(v.page.lines)
       IN  /\ Len(v.page.lines) <= ReadCap
           /\ v.page.lines = SubSeq(lines, v.page.lo, next - 1)
           /\ v.page.more = end - next + 1
  /\ c.tool = "list_files" =>
       /\ \A i \in 1..Len(v.listed) : Tools!IsFile(v.listed[i])
       /\ Len(v.listed) < (IF c.max <= 0 THEN ListDefault ELSE c.max) =>
            \A l \in c.pattern :
              /\ Tools!IsFile(l) /\ Tools!IsPrefix(Tools!Resolve(c.raw), l)
              /\ ~\E g \in dirs : <<g, l>> \in Ignores
              /\ Tools!Range(l) \cap {".git", ".agent"} = {}
              => l \in Tools!Range(v.listed)

AnswerIsExact ==
  \/ answer = [result |-> "none"]
  \/ \E c \in Calls : \E r, v :
       /\ answer = [call |-> c, result |-> r, val |-> v]
       /\ r = "ok" => Call(c) /\ Exact(c, v)

FilesInv == FilesShape /\ AnswerIsExact

LEMMA FilesStart ==
  ASSUME disk \in Disks0, dirs = Dirs0, answer = [result |-> "none"]
  PROVE  FilesInv
<1>1. FilesShape
  BY FilesAssumption DEF FilesShape, Tools!FileAssumption, Tools!TypeOK
<1> QED
  BY <1>1 DEF FilesInv, AnswerIsExact

LEMMA FilesInitial == Tools!Init => FilesInv
  BY FilesStart DEF Tools!Init

LEMMA FilesStandStill == NoFiles => FilesInv
<1>1. (CHOOSE d \in Disks0 : TRUE) \in Disks0
  BY FilesAssumption DEF Tools!FileAssumption
<1> QED
  BY <1>1, FilesStart DEF NoFiles

\* What is told of a call depends on the state the call leaves.
LEMMA SameFilesShape == FilesShape /\ UNCHANGED <<disk, dirs>> /\ answer'.result \in {"unknown", "bad", "ok", "error"} => FilesShape'
  BY DEF FilesShape, Tools!TypeOK

LEMMA ResolvedNow ==
  \A raw \in Paths : \E w \in [0..Len(raw) -> Paths] :
    /\ w[0] = <<>> /\ \A n \in 1..Len(raw) : w[n] = Tools!Enter(w[n - 1], raw[n])
    /\ Tools!Resolve(raw) = w[Len(raw)]
  BY ResolvedIs

LEMMA ResolvedThen ==
  (\A raw \in Paths : \E w \in [0..Len(raw) -> Paths] :
     /\ w[0] = <<>> /\ \A n \in 1..Len(raw) : w[n] = Tools!Enter(w[n - 1], raw[n])
     /\ Tools!Resolve(raw) = w[Len(raw)])'
  BY ResolvedNow, PTL

LEMMA SameResolve ==
  ASSUME UNCHANGED <<disk, dirs>>, NEW raw \in Paths
  PROVE  Tools!Resolve(raw)' = Tools!Resolve(raw)
<1> DEFINE N == Len(raw)
<1>1. N \in Nat
  BY LenProperties DEF Paths
<1>2. PICK w \in [0..N -> Paths] :
        /\ w[0] = <<>> /\ \A n \in 1..N : w[n] = Tools!Enter(w[n - 1], raw[n])
        /\ Tools!Resolve(raw) = w[N]
  BY ResolvedIs
<1>3. PICK v \in [0..N -> Paths] :
        /\ v[0] = <<>> /\ \A n \in 1..N : v[n] = Tools!Enter(v[n - 1], raw[n])'
        /\ Tools!Resolve(raw)' = v[N]
  BY ResolvedThen
<1> HIDE DEF N
<1>4. \A l, name : Tools!Enter(l, name)' = Tools!Enter(l, name)
  BY DEF Tools!Enter, Tools!IsFile
<1>5. \A n \in 1..N : v[n - 1] = w[n - 1] => v[n] = w[n]
  BY <1>2, <1>3, <1>4
<1>6. v[N] = w[N]
  <2>1. v[0] = w[0]
    BY <1>2, <1>3
  <2>2. Together(v, w, N)
    BY <1>5, <2>1 DEF Together
  <2>3. \A n \in 0..N : v[n] = w[n]
    BY <1>1, <2>2, Lockstep
  <2> QED
    BY <1>1, <2>3
<1> QED
  BY <1>2, <1>3, <1>6

LEMMA ContentsAre ==
  ASSUME FilesShape, NEW loc, Tools!IsFile(loc)
  PROVE  /\ loc \in FileLocs /\ loc \in Tools!Locations /\ loc # <<>> /\ disk[loc].body \in Tools!Bodies /\ disk[loc].bom \in BOOLEAN
         /\ disk[loc] = [file |-> TRUE, bom |-> disk[loc].bom, body |-> disk[loc].body]
         /\ Tools!Parents(loc) \subseteq dirs
<1>1. loc \in FileLocs /\ disk[loc].file /\ disk[loc] \in Tools!Contents
  BY DEF FilesShape, Tools!TypeOK, Tools!IsFile
<1>2. disk[loc] \in [file : {TRUE}, bom : BOOLEAN, body : Tools!Bodies]
  <2>1. disk[loc] # Tools!Absent
    BY <1>1 DEF Tools!Absent
  <2> QED
    BY <1>1, <2>1 DEF Tools!Contents
<1> QED
  BY <1>1, <1>2, FilesAssumption DEF Tools!FileAssumption, FilesShape, Tools!TypeOK

\* Where a write goes.
LEMMA WriteGoes ==
  ASSUME FilesShape, NEW c, Call(c), c.tool = "write_file", Tools!ResolveForWrite(c.raw) # Tools!NoLoc
  PROVE  /\ Tools!ResolveForWrite(c.raw) = Tools!Counted(c.raw)
         /\ Tools!ResolveForWrite(c.raw) \in FileLocs \cup Dirs0
<1> DEFINE loc == Tools!Counted(c.raw)
<1>1. Tools!ResolveForWrite(c.raw) = loc /\ ~\E l \in Tools!Parents(loc) : Tools!IsFile(l)
  BY DEF Tools!ResolveForWrite
<1>2. \/ loc \in FileLocs \cup Dirs0 \cup {Tools!NoLoc}
      \/ \E l \in Tools!Parents(loc) \cap FileLocs : \A d \in Disks0 : d[l].file
  BY FilesAssumption DEF Tools!FileAssumption, Call
<1> HIDE DEF loc
<1>3. ~\E l \in Tools!Parents(loc) \cap FileLocs : \A d \in Disks0 : d[l].file
  BY <1>1 DEF FilesShape, Tools!IsFile
<1> QED
  BY <1>1, <1>2, <1>3 DEF loc

LEMMA VerdictIs ==
  ASSUME FilesShape, NEW c, Call(c), c.tool = "write_file",
         Tools!Verdict(c) \in {"blocked", "elided", "written"}
  PROVE  /\ Tools!ResolveForWrite(c.raw) = Tools!Counted(c.raw)
         /\ Tools!Verdict(c) = "written" =>
              Tools!ResolveForWrite(c.raw) \in FileLocs /\ Tools!ResolveForWrite(c.raw) \notin dirs
         /\ Tools!Verdict(c) # "written" => Tools!Parents(Tools!ResolveForWrite(c.raw)) \subseteq dirs
<1> DEFINE loc == Tools!ResolveForWrite(c.raw)
<1>1. loc # Tools!NoLoc
  BY Zenon DEF Tools!Verdict
<1>2. loc = Tools!Counted(c.raw) /\ loc \in FileLocs \cup Dirs0
  BY <1>1, WriteGoes
<1>3. /\ Tools!Verdict(c) = "written" => loc \notin dirs
      /\ Tools!Verdict(c) = "blocked" => loc \in dirs
      /\ Tools!Verdict(c) = "elided" => Tools!IsFile(loc)
  BY Zenon DEF Tools!Verdict
<1> HIDE DEF loc
<1>4. Tools!Verdict(c) = "written" => loc \in FileLocs
  BY <1>2, <1>3 DEF FilesShape, Tools!TypeOK
<1>5. Tools!Verdict(c) = "blocked" => Tools!Parents(loc) \subseteq dirs
  BY <1>3 DEF FilesShape
<1>6. Tools!Verdict(c) = "elided" => Tools!Parents(loc) \subseteq dirs
  BY <1>3, ContentsAre
<1> QED
  BY <1>2, <1>3, <1>4, <1>5, <1>6 DEF loc

\* A write that is refused changes nothing.
LEMMA RefusedWrite ==
  ASSUME FilesShape, NEW c, Call(c), c.tool = "write_file", Tools!WriteFile(c), Tools!Verdict(c) # "written"
  PROVE  /\ UNCHANGED <<disk, dirs>> /\ answer' = [call |-> c, result |-> "error", val |-> Tools!Nothing]
<1>1. disk' = disk /\ answer' = [call |-> c, result |-> "error", val |-> Tools!Nothing]
      /\ dirs' = dirs \cup Tools!Created(c)
  BY DEF Tools!WriteFile, Tools!Answer
<1>2. Tools!Created(c) \subseteq dirs
  BY VerdictIs DEF Tools!Created
<1> QED
  BY <1>1, <1>2

\* A write that is made puts one file where its path leads, and the directories
\* on the way to it.
LEMMA MadeWrite ==
  ASSUME FilesShape, NEW c, Call(c), c.tool = "write_file", Tools!WriteFile(c), Tools!Verdict(c) = "written"
  PROVE  LET loc == Tools!ResolveForWrite(c.raw)
             old == IF Tools!IsFile(loc) THEN Tools!ReadForModel(disk[loc]) ELSE [ending |-> "lf", bom |-> FALSE]
             put == IF old.ending = "crlf" THEN Tools!AddReturns(c.content, 1) ELSE c.content
         IN  /\ loc = Tools!Counted(c.raw) /\ loc \in FileLocs
             /\ answer' = [call |-> c, result |-> "ok", val |-> [wrote |-> loc]]
             /\ dirs' = dirs \cup Tools!Parents(loc)
             /\ put \in Tools!Bodies /\ old.bom \in BOOLEAN /\ c.content \in Tools!Bodies
             /\ disk' = [disk EXCEPT ![loc] = [file |-> TRUE, bom |-> old.bom, body |-> put]]
<1> DEFINE loc == Tools!ResolveForWrite(c.raw)
           old == IF Tools!IsFile(loc) THEN Tools!ReadForModel(disk[loc]) ELSE [ending |-> "lf", bom |-> FALSE]
           put == IF old.ending = "crlf" THEN Tools!AddReturns(c.content, 1) ELSE c.content
<1>1. loc = Tools!Counted(c.raw) /\ loc \in FileLocs
  BY VerdictIs
<1>2. c.content \in Tools!Bodies
  BY FilesAssumption DEF Tools!FileAssumption, Call
<1>3. put \in Tools!Bodies
  BY <1>2, ReturnsAdded
<1>4. old.bom \in BOOLEAN
  BY ContentsAre DEF Tools!ReadForModel
<1>5. answer' = [call |-> c, result |-> "ok", val |-> [wrote |-> loc]]
  BY Zenon DEF Tools!WriteFile, Tools!Answer
<1>6. dirs' = dirs \cup Tools!Parents(loc)
  BY Zenon DEF Tools!WriteFile, Tools!Created
<1>7. disk' = [disk EXCEPT ![loc] = [file |-> TRUE, bom |-> old.bom, body |-> put]]
  BY Zenon DEF Tools!WriteFile, Tools!Put, Tools!RestoreForWrite
<1> QED
  BY <1>1, <1>2, <1>3, <1>4, <1>5, <1>6, <1>7, Zenon

LEMMA WriteKeepsShape ==
  ASSUME FilesShape, NEW c, Call(c), c.tool = "write_file", Tools!WriteFile(c)
  PROVE  FilesShape'
<1>1. CASE Tools!Verdict(c) # "written"
  BY <1>1, RefusedWrite, SameFilesShape
<1>2. CASE Tools!Verdict(c) = "written"
  <2>1. PICK loc \in FileLocs, f \in Tools!Contents :
          /\ f.file /\ disk' = [disk EXCEPT ![loc] = f] /\ dirs' = dirs \cup Tools!Parents(loc)
          /\ answer'.result = "ok"
    <3> DEFINE loc == Tools!ResolveForWrite(c.raw)
               old == IF Tools!IsFile(loc) THEN Tools!ReadForModel(disk[loc]) ELSE [ending |-> "lf", bom |-> FALSE]
               put == IF old.ending = "crlf" THEN Tools!AddReturns(c.content, 1) ELSE c.content
               f == [file |-> TRUE, bom |-> old.bom, body |-> put]
    <3>1. /\ loc \in FileLocs /\ answer' = [call |-> c, result |-> "ok", val |-> [wrote |-> loc]]
          /\ dirs' = dirs \cup Tools!Parents(loc) /\ put \in Tools!Bodies /\ old.bom \in BOOLEAN
          /\ disk' = [disk EXCEPT ![loc] = f]
      BY <1>2, MadeWrite, Zenon
    <3> HIDE DEF loc, old, put
    <3>2. f \in Tools!Contents /\ f.file
      BY <3>1 DEF Tools!Contents
    <3>3. answer'.result = "ok"
      BY <3>1
    <3> QED
      BY <3>1, <3>2, <3>3
  <2>2. disk \in [FileLocs -> Tools!Contents] /\ loc \in Tools!Locations
    BY FilesAssumption DEF FilesShape, Tools!TypeOK, Tools!FileAssumption
  <2>3. /\ disk' \in [FileLocs -> Tools!Contents]
        /\ \A l \in FileLocs : disk[l].file => disk'[l].file
        /\ \A l \in FileLocs : disk'[l].file => l = loc \/ disk[l].file
    BY <2>1, <2>2
  <2>4. /\ Tools!Parents(loc) \subseteq Tools!Locations
        /\ \A p \in Tools!Parents(loc) : Tools!Parents(p) \subseteq Tools!Parents(loc)
    BY <2>2, ParentsAre DEF Tools!Locations
  <2> QED
    BY <2>1, <2>3, <2>4 DEF FilesShape, Tools!TypeOK
<1> QED
  BY <1>1, <1>2

LEMMA BeginsWith ==
  ASSUME NEW S, NEW s \in Seq(S), NEW t \in Seq(S), Len(s) <= Len(t), \A i \in 1..Len(s) : s[i] = t[i]
  PROVE  Tools!IsPrefix(s, t)
<1>1. Conversation!IsPrefix(s, t)
  BY PrefixIs
<1> QED
  BY <1>1 DEF Tools!IsPrefix, Conversation!IsPrefix

\* What a write that stopped leaves is a file, and a beginning of what was to be
\* written.
LEMMA LeavingsAre ==
  ASSUME NEW bom \in BOOLEAN, NEW put \in Tools!Bodies,
         NEW f \in Tools!Leavings([file |-> TRUE, bom |-> bom, body |-> put])
  PROVE  f \in Tools!Contents /\ f.file /\ Tools!IsPrefix(Tools!Texts(f.body), Tools!Texts(put))
<1> DEFINE whole == [file |-> TRUE, bom |-> bom, body |-> put]
<1>1. /\ Len(put) \in Nat
      /\ \A i \in 1..Len(put) : put[i] = <<put[i][1], put[i][2]>> /\ put[i][1] \in DOMAIN Size
                                 /\ put[i][2] \in LineEnds
  BY BodyIs
<1>2. PICK body : /\ \/ body = <<>> /\ f = [whole EXCEPT !.bom = FALSE, !.body = body]
                     \/ f = [whole EXCEPT !.body = body]
                  /\ \/ body = <<>>
                     \/ \E n \in 0..Len(put) : body = SubSeq(put, 1, n)
                     \/ \E n \in 1..Len(put) : body = Tools!Bare(put, n)
  <2>1. whole.body = put /\ f \in Tools!Leavings(whole)
    OBVIOUS
  <2> HIDE DEF whole
  <2>2. \/ f = [whole EXCEPT !.bom = FALSE, !.body = <<>>]
        \/ \E n \in 0..Len(put) : f = [whole EXCEPT !.body = SubSeq(put, 1, n)]
        \/ \E n \in 1..Len(put) : f = [whole EXCEPT !.body = Tools!Bare(put, n)]
    BY <2>1 DEF Tools!Leavings
  <2> QED
    BY <2>2, Zenon
<1>3. /\ body \in Tools!Bodies /\ Len(body) <= Len(put)
      /\ \A i \in 1..Len(body) : body[i][1] = put[i][1]
  <2>1. CASE body = <<>>
    BY <1>1, <2>1 DEF Tools!Bodies
  <2>2. ASSUME NEW n \in 0..Len(put), body = SubSeq(put, 1, n) PROVE <1>3
    BY <1>1, <2>2, Taken DEF Tools!Bodies
  <2>3. ASSUME NEW n \in 1..Len(put), body = Tools!Bare(put, n) PROVE <1>3
    <3>1. n \in Nat /\ \A i \in 1..n : i \in 1..Len(put)
      BY <1>1
    <3>2. body = [i \in 1..n |-> IF i = n THEN <<put[i][1], Tools!Open>> ELSE put[i]]
      BY <2>3 DEF Tools!Bare
    <3>3. \A i \in 1..n : body[i] \in (DOMAIN Size) \X LineEnds /\ body[i][1] = put[i][1]
      BY <1>1, <3>1, <3>2 DEF LineEnds
    <3>4. body \in [1..n -> (DOMAIN Size) \X LineEnds]
      BY <3>2, <3>3
    <3>5. body \in Seq((DOMAIN Size) \X LineEnds) /\ Len(body) = n
      BY <3>1, <3>4, Mapped
    <3> QED
      BY <1>1, <3>3, <3>5 DEF Tools!Bodies, LineEnds
  <2> QED
    BY <1>2, <2>1, <2>2, <2>3
<1>4. f.file /\ f.body = body /\ f \in Tools!Contents
  <2>1. \A x \in Tools!Bodies :
          /\ [whole EXCEPT !.body = x] \in [file : {TRUE}, bom : BOOLEAN, body : Tools!Bodies]
          /\ [whole EXCEPT !.bom = FALSE, !.body = x] \in [file : {TRUE}, bom : BOOLEAN, body : Tools!Bodies]
          /\ [whole EXCEPT !.body = x].body = x /\ [whole EXCEPT !.bom = FALSE, !.body = x].body = x
    OBVIOUS
  <2> HIDE DEF whole
  <2>2. f \in [file : {TRUE}, bom : BOOLEAN, body : Tools!Bodies] /\ f.body = body
    BY <1>2, <1>3, <2>1
  <2> QED
    BY <2>2 DEF Tools!Contents
<1>5. /\ Tools!Texts(body) \in Seq(DOMAIN Size) /\ Len(Tools!Texts(body)) = Len(body)
      /\ \A i \in 1..Len(body) : Tools!Texts(body)[i] = body[i][1]
  BY <1>3, TextsAre
<1>6. /\ Tools!Texts(put) \in Seq(DOMAIN Size) /\ Len(Tools!Texts(put)) = Len(put)
      /\ \A i \in 1..Len(put) : Tools!Texts(put)[i] = put[i][1]
  BY TextsAre
<1>7. Len(body) \in Nat /\ \A i \in 1..Len(body) : i \in 1..Len(put)
  BY <1>1, <1>3, LenProperties DEF Tools!Bodies
<1>8. Tools!IsPrefix(Tools!Texts(body), Tools!Texts(put))
  BY <1>3, <1>5, <1>6, <1>7, BeginsWith
<1> QED
  BY <1>4, <1>8

\* What a write that the system fails does: directories on the way to its file are
\* made, and the file is as it was or a beginning of what it was to be.
Broken(c, loc) ==
  /\ loc = Tools!Counted(c.raw) /\ loc \in FileLocs /\ loc \notin dirs
  /\ ~dry /\ ~(Tools!Length(c.content) > WriteMax)
  /\ disk[loc].file => ~Tools!LooksElided(Tools!ReadForModel(disk[loc]).content, c.content)
  /\ answer' = [call |-> c, result |-> "error", val |-> Tools!Nothing]
  /\ \E way \in SUBSET Tools!Parents(loc) :
       /\ \A p \in way : Tools!Parents(p) \subseteq way
       /\ dirs' = dirs \cup way
       /\ \/ disk' = disk
          \/ /\ way = Tools!Parents(loc)
             /\ \E f \in Tools!Contents :
                  /\ f.file /\ disk' = [disk EXCEPT ![loc] = f]
                  /\ Tools!IsPrefix(Tools!Texts(f.body), Tools!Texts(c.content))

LEMMA BrokenWrite ==
  ASSUME FilesShape, NEW c, Call(c), c.tool = "write_file", Tools!WriteFails(c)
  PROVE  \E loc : Broken(c, loc)
<1> DEFINE loc == Tools!ResolveForWrite(c.raw)
           old == IF Tools!IsFile(loc) THEN Tools!ReadForModel(disk[loc]) ELSE [ending |-> "lf", bom |-> FALSE]
           put == IF old.ending = "crlf" THEN Tools!AddReturns(c.content, 1) ELSE c.content
<1>1. Tools!Verdict(c) = "written"
  BY DEF Tools!WriteFails
<1>2. loc = Tools!Counted(c.raw) /\ loc \in FileLocs /\ loc \notin dirs
  BY <1>1, VerdictIs
<1>3. /\ ~dry /\ ~(Tools!Length(c.content) > WriteMax)
      /\ Tools!IsFile(loc) => ~Tools!LooksElided(Tools!ReadForModel(disk[loc]).content, c.content)
  BY <1>1, Zenon DEF Tools!Verdict
<1>4. c.content \in Tools!Bodies
  BY FilesAssumption DEF Tools!FileAssumption, Call
<1>5. put \in Tools!Bodies /\ old.bom \in BOOLEAN
  <2>1. put \in Tools!Bodies
    BY <1>4, ReturnsAdded
  <2>2. old.bom \in BOOLEAN
    BY ContentsAre DEF Tools!ReadForModel
  <2> QED
    BY <2>1, <2>2
<1>6. Tools!Put(c) = [file |-> TRUE, bom |-> old.bom, body |-> put]
  BY Zenon DEF Tools!Put, Tools!RestoreForWrite
<1>7. Tools!Texts(put) = Tools!Texts(c.content)
  BY <1>4, TextsAre
<1>8. /\ answer' = [call |-> c, result |-> "error", val |-> Tools!Nothing]
      /\ \/ /\ \E n \in 0..Len(loc) - 1 : dirs' = dirs \cup {SubSeq(loc, 1, i) : i \in 0..n}
            /\ disk' = disk
         \/ /\ dirs' = dirs \cup Tools!Parents(loc)
            /\ \E f \in Tools!Leavings(Tools!Put(c)) : disk' = [disk EXCEPT ![loc] = f]
  BY <1>1, Zenon DEF Tools!WriteFails, Tools!Created, Tools!Answer
<1> HIDE DEF loc, put, old
<1>9. loc \in Seq(STRING \ {".", "..", Tools!NoLoc[1]}) /\ Len(loc) \in Nat
  BY <1>2, FilesAssumption, LenProperties DEF Tools!FileAssumption, Tools!Locations
<1>10. disk[loc].file => ~Tools!LooksElided(Tools!ReadForModel(disk[loc]).content, c.content)
  BY <1>2, <1>3 DEF Tools!IsFile
<1>11. ASSUME NEW n \in 0..Len(loc) - 1, dirs' = dirs \cup {SubSeq(loc, 1, i) : i \in 0..n}, disk' = disk
       PROVE  Broken(c, loc)
  <2> DEFINE way == {SubSeq(loc, 1, i) : i \in 0..n}
  <2>1. way \in SUBSET Tools!Parents(loc)
    BY <1>9 DEF Tools!Parents
  <2>2. ASSUME NEW p \in way PROVE Tools!Parents(p) \subseteq way
    <3>1. PICK i \in 0..n : p = SubSeq(loc, 1, i)
      OBVIOUS
    <3>2. i \in 0..Len(loc) /\ i \in Nat /\ \A m \in 0..(i - 1) : m \in 0..i /\ m \in 0..n
      BY <1>9
    <3>3. Len(p) = i /\ \A m \in 0..(i - 1) : SubSeq(p, 1, m) = SubSeq(loc, 1, m)
      BY <1>9, <3>1, <3>2, TakenTwice
    <3> QED
      BY <3>2, <3>3 DEF Tools!Parents
  <2>3. dirs' = dirs \cup way
    BY <1>11
  <2> HIDE DEF way
  <2> QED
    BY <1>2, <1>3, <1>8, <1>10, <1>11, <2>1, <2>2, <2>3, Zenon DEF Broken
<1>12. ASSUME NEW f \in Tools!Leavings(Tools!Put(c)), dirs' = dirs \cup Tools!Parents(loc),
              disk' = [disk EXCEPT ![loc] = f]
       PROVE  Broken(c, loc)
  <2>1. f \in Tools!Contents /\ f.file /\ Tools!IsPrefix(Tools!Texts(f.body), Tools!Texts(c.content))
    BY <1>5, <1>6, <1>7, <1>12, LeavingsAre
  <2> DEFINE way == Tools!Parents(loc)
  <2>2. \A p \in way : Tools!Parents(p) \subseteq way
    BY <1>9, ParentsAre
  <2>3. way \in SUBSET Tools!Parents(loc) /\ way = Tools!Parents(loc) /\ dirs' = dirs \cup way
    BY <1>12
  <2> HIDE DEF way
  <2> QED
    BY <1>2, <1>3, <1>8, <1>10, <1>12, <2>1, <2>2, <2>3, Zenon DEF Broken
<1> QED
  BY <1>8, <1>11, <1>12

LEMMA BrokenKeepsShape ==
  ASSUME FilesShape, NEW c, NEW loc, Broken(c, loc)
  PROVE  FilesShape'
<1>1. PICK way \in SUBSET Tools!Parents(loc) :
        /\ \A p \in way : Tools!Parents(p) \subseteq way
        /\ dirs' = dirs \cup way
        /\ \/ disk' = disk
           \/ /\ way = Tools!Parents(loc)
              /\ \E f \in Tools!Contents :
                   /\ f.file /\ disk' = [disk EXCEPT ![loc] = f]
                   /\ Tools!IsPrefix(Tools!Texts(f.body), Tools!Texts(c.content))
  BY Zenon DEF Broken
<1>2. loc \in FileLocs /\ answer'.result = "error"
  BY DEF Broken
<1>3. disk \in [FileLocs -> Tools!Contents] /\ loc \in Tools!Locations
  BY <1>2, FilesAssumption DEF FilesShape, Tools!TypeOK, Tools!FileAssumption
<1>4. /\ disk' \in [FileLocs -> Tools!Contents]
      /\ \A l \in FileLocs : disk[l].file => disk'[l].file
      /\ \A l \in FileLocs : disk'[l].file => disk[l].file \/ (l = loc /\ way = Tools!Parents(loc))
  BY <1>1, <1>2, <1>3
<1>5. Tools!Parents(loc) \subseteq Tools!Locations
  BY <1>3, ParentsAre DEF Tools!Locations
<1> QED
  BY <1>1, <1>2, <1>4, <1>5 DEF FilesShape, Tools!TypeOK

\* The first line a request is for, its last, and the last that fits the page.
FirstLine(from) == IF from <= 0 THEN 1 ELSE from
EndLine(total, to) == IF to <= 0 THEN total ELSE IF to <= total THEN to ELSE total
LastLine(total, from, to) ==
  IF EndLine(total, to) <= FirstLine(from) + ReadCap - 1 THEN EndLine(total, to) ELSE FirstLine(from) + ReadCap - 1

LEMMA PageIs ==
  ASSUME NEW total \in Nat, NEW from \in Int, NEW to \in Int
  PROVE  /\ Tools!Page(total, from, to) =
              [lo |-> FirstLine(from), hi |-> LastLine(total, from, to),
               more |-> EndLine(total, to) - LastLine(total, from, to),
               valid |-> FirstLine(from) <= total /\ FirstLine(from) <= EndLine(total, to)]
         /\ FirstLine(from) \in Int /\ EndLine(total, to) \in Int /\ LastLine(total, from, to) \in Int
<1> DEFINE start == FirstLine(from)
           end   == EndLine(total, to)
           least == IF to <= 0 THEN total ELSE Tools!Min({to, total})
<1>1. ReadCap \in Nat
  BY FilesAssumption DEF Tools!FileAssumption
<1>2. start \in Int /\ end \in Int /\ start + ReadCap - 1 \in Int
  BY <1>1 DEF FirstLine, EndLine
<1>3. least = end
  BY OfTwo DEF EndLine
<1> HIDE DEF start, end
<1>4. Tools!Min({end, start + ReadCap - 1}) = IF end <= start + ReadCap - 1 THEN end ELSE start + ReadCap - 1
  BY <1>2, OfTwo
<1>5. Tools!Min({end, start + ReadCap - 1}) = LastLine(total, from, to)
  BY <1>4, Zenon DEF LastLine, start, end
<1>6. Tools!Page(total, from, to) =
        [lo |-> start, hi |-> Tools!Min({least, start + ReadCap - 1}),
         more |-> least - Tools!Min({least, start + ReadCap - 1}),
         valid |-> start <= total /\ start <= least]
  BY Zenon DEF Tools!Page, start, FirstLine
<1> HIDE DEF least
<1>7. LastLine(total, from, to) \in Int
  BY <1>2, <1>4, <1>5
<1> QED
  BY <1>2, <1>3, <1>5, <1>6, <1>7, Zenon DEF start, end

\* What a read answers with, and that it adds up.
LEMMA ReadAnswers ==
  ASSUME FilesShape, NEW c, Call(c), c.tool = "read_file", Tools!ReadFile(c), answer'.result = "ok"
  PROVE  /\ answer'.call = c /\ UNCHANGED <<disk, dirs>>
         /\ LET all_ == Tools!Texts(disk[Tools!Resolve(c.raw)].body)
                end == IF c.to <= 0 THEN Len(all_) ELSE Tools!Min({c.to, Len(all_)})
                page == answer'.val.page
                next == page.lo + Len(page.lines)
            IN  /\ Len(page.lines) <= ReadCap
                /\ page.lines = SubSeq(all_, page.lo, next - 1)
                /\ page.more = end - next + 1
<1> DEFINE loc == Tools!Resolve(c.raw)
           body == disk[loc].body
           shown == Tools!Texts(body)
           page == Tools!Page(Len(shown), c.from, c.to)
           end == EndLine(Len(shown), c.to)
           seen == Tools!Texts(Tools!ReadForModel(disk[loc]).content)
           from == Tools!Page(Len(seen), c.from, c.to)
           failed == answer' = [call |-> c, result |-> "error", val |-> Tools!Nothing]
<1>a. ~failed
  OBVIOUS
<1>b. /\ UNCHANGED <<disk, dirs>>
      /\ ~Tools!IsFile(loc) => failed
      /\ failed \/ IF seen = <<>>
                   THEN answer' = [call |-> c, result |-> "ok", val |-> [page |-> [lo |-> 1, more |-> 0, lines |-> <<>>]]]
                   ELSE IF from.valid
                   THEN answer' = [call |-> c, result |-> "ok",
                                   val |-> [page |-> [lo |-> from.lo, more |-> from.more,
                                                      lines |-> SubSeq(seen, from.lo, from.hi)]]]
                   ELSE failed
  <2> HIDE DEF failed
  <2>1. \A x : Tools!Answer(c, "error", Tools!Nothing) <=> failed
    BY SMTT(30) DEF failed, Tools!Answer
  <2> QED
    BY <2>1, Zenon DEF Tools!ReadFile, Tools!Answer
<1> HIDE DEF failed
<1>1. UNCHANGED <<disk, dirs>> /\ Tools!IsFile(loc)
  BY <1>a, <1>b
<1>2. body \in Tools!Bodies
  BY <1>1, ContentsAre
<1>3. Tools!ReadForModel(disk[loc]).content = Tools!AddReturns(body, -1)
  BY DEF Tools!ReadForModel
<1>4. Tools!Texts(Tools!ReadForModel(disk[loc]).content) = shown
  BY <1>2, <1>3, TextsAre
<1>5. shown \in Seq(DOMAIN Size) /\ Len(shown) \in Nat
  BY <1>2, TextsAre, LenProperties
<1>6. ReadCap \in Nat /\ ReadCap >= 1 /\ c.from \in Int /\ c.to \in Int
  BY FilesAssumption DEF Tools!FileAssumption, Call
<1>7. \/ shown = <<>> /\ answer' = [call |-> c, result |-> "ok", val |-> [page |-> [lo |-> 1, more |-> 0, lines |-> <<>>]]]
      \/ /\ shown # <<>> /\ page.valid
         /\ answer' = [call |-> c, result |-> "ok",
                       val |-> [page |-> [lo |-> page.lo, more |-> page.more, lines |-> SubSeq(shown, page.lo, page.hi)]]]
  <2>1. seen = shown /\ from = page
    BY <1>4
  <2> HIDE DEF seen, from, shown, page
  <2> QED
    BY <1>a, <1>b, <2>1, Zenon DEF failed
<1> HIDE DEF shown, page, seen, from
<1>8. answer'.call = c
  BY <1>7
<1>9. Tools!Min({c.to, Len(shown)}) = IF c.to <= Len(shown) THEN c.to ELSE Len(shown)
  <2>1. c.to \in Int /\ Len(shown) \in Int
    BY <1>5, <1>6
  <2> QED
    BY <2>1, OfTwo
<1>10. (IF c.to <= 0 THEN Len(shown) ELSE Tools!Min({c.to, Len(shown)})) = end
  BY <1>9 DEF EndLine
<1>11. CASE shown = <<>>
  <2>1. answer'.val.page = [lo |-> 1, more |-> 0, lines |-> <<>>]
    BY <1>7, <1>11
  <2>2. Len(shown) = 0 /\ Len(<<>>) = 0 /\ end = 0
    BY <1>6, <1>11 DEF EndLine
  <2>3. SubSeq(shown, 1, 0) = <<>>
    BY <1>11
  <2> HIDE DEF end
  <2>4. answer'.val.page.lo = 1 /\ answer'.val.page.more = 0 /\ answer'.val.page.lines = <<>>
    BY <2>1
  <2> QED
    BY <1>1, <1>6, <1>8, <1>10, <2>2, <2>3, <2>4 DEF shown
<1>12. CASE shown # <<>>
  <2>1. page.valid /\ answer'.val.page = [lo |-> page.lo, more |-> page.more, lines |-> SubSeq(shown, page.lo, page.hi)]
    <3> DEFINE v == [lo |-> page.lo, more |-> page.more, lines |-> SubSeq(shown, page.lo, page.hi)]
    <3>1. page.valid /\ answer' = [call |-> c, result |-> "ok", val |-> [page |-> v]]
      BY <1>7, <1>12, Zenon
    <3> HIDE DEF v
    <3>2. answer'.val.page = v
      BY <3>1
    <3> QED
      BY <3>1, <3>2 DEF v
  <2> DEFINE start == FirstLine(c.from)
             last == LastLine(Len(shown), c.from, c.to)
  <2>0. Len(shown) \in Nat /\ c.from \in Int /\ c.to \in Int
    BY <1>5, <1>6
  <2>2. page = [lo |-> start, hi |-> last, more |-> end - last,
                valid |-> start <= Len(shown) /\ start <= end]
    BY <2>0, PageIs, Zenon DEF page
  <2>3. start \in Nat /\ start >= 1 /\ end \in Int /\ end <= Len(shown) /\ start <= end
    <3>1. start <= Len(shown) /\ start <= end
      BY <2>1, <2>2
    <3> QED
      BY <2>0, <3>1 DEF FirstLine, EndLine
  <2>a. last = IF end <= start + ReadCap - 1 THEN end ELSE start + ReadCap - 1
    BY Zenon DEF LastLine
  <2> HIDE DEF start, end
  <2> HIDE DEF last
  <2>4. last \in Int /\ last >= start /\ last <= Len(shown) /\ last - start + 1 <= ReadCap
    BY <1>5, <1>6, <2>3, <2>a
  <2> HIDE DEF last
  <2>5. Len(SubSeq(shown, start, last)) = last - start + 1
    <3>1. \A i \in start..last : shown[i] \in DOMAIN Size
      <4>1. \A i \in start..last : i \in 1..Len(shown)
        BY <1>5, <2>3, <2>4
      <4> QED
        BY <1>5, <4>1, ElementOfSeq
    <3>2. start \in Int /\ start <= last
      BY <2>3, <2>4
    <3>3. Len(SubSeq(shown, start, last)) = IF start <= last THEN last - start + 1 ELSE 0
      BY <1>5, <2>4, <3>1, <3>2, SubSeqProperties
    <3> QED
      BY <3>2, <3>3
  <2>6. /\ answer'.val.page.lo = start /\ answer'.val.page.more = end - last
        /\ answer'.val.page.lines = SubSeq(shown, start, last)
    <3> DEFINE v == [lo |-> page.lo, more |-> page.more, lines |-> SubSeq(shown, page.lo, page.hi)]
    <3>1. answer'.val.page = v
      BY <2>1
    <3>2. page.lo = start /\ page.hi = last /\ page.more = end - last
      BY <2>2
    <3>3. v.lo = start /\ v.more = end - last /\ v.lines = SubSeq(shown, start, last)
      BY <3>2
    <3> HIDE DEF v
    <3> QED
      BY <3>1, <3>3
  <2>7. start + (last - start + 1) - 1 = last /\ end - (start + (last - start + 1)) + 1 = end - last
    BY <2>3, <2>4
  <2> DEFINE told == answer'.val.page
             next == told.lo + Len(told.lines)
  <2>8. next = start + (last - start + 1) /\ Len(told.lines) = last - start + 1
    BY <2>5, <2>6
  <2>9. Len(told.lines) <= ReadCap /\ next - 1 = last /\ told.more = end - next + 1
    BY <2>3, <2>4, <2>6, <2>7, <2>8
  <2>10. told.lines = SubSeq(shown, told.lo, next - 1)
    BY <2>6, <2>9
  <2> HIDE DEF next
  <2> QED
    BY <1>1, <1>8, <1>10, <2>9, <2>10, Zenon DEF shown, next
<1> QED
  BY <1>11, <1>12

\* What a listing answers with.
LEMMA ListAnswers ==
  ASSUME FilesShape, NEW c, Call(c), c.tool = "list_files", Tools!ListFiles(c)
  PROVE  /\ UNCHANGED <<disk, dirs>>
         /\ \/ answer' = [call |-> c, result |-> "error", val |-> Tools!Nothing]
            \/ \E v : answer' = [call |-> c, result |-> "ok", val |-> v] /\ Exact(c, v)
<1> DEFINE dir == Tools!Resolve(c.raw)
           cap == IF c.max <= 0 THEN ListDefault ELSE c.max
           asked == {l \in c.pattern : Tools!Visible(dir, l)}
           found == Tools!Found(asked)
           listed == SubSeq(found, 1, Tools!Min({cap, Len(found)}))
<1>1. /\ UNCHANGED <<disk, dirs>>
      /\ \/ answer' = [call |-> c, result |-> "error", val |-> Tools!Nothing]
         \/ answer' = [call |-> c, result |-> "ok", val |-> [listed |-> listed]]
  BY Zenon DEF Tools!ListFiles, Tools!Answer
<1>2. cap \in Nat
  BY FilesAssumption DEF Tools!FileAssumption, Call
<1>3. \A l \in asked : Tools!IsFile(l)
  BY DEF Tools!Visible
<1>4. \A l \in c.pattern : /\ Tools!IsFile(l) /\ Tools!IsPrefix(dir, l)
                           /\ ~\E g \in dirs : <<g, l>> \in Ignores
                           /\ Tools!Range(l) \cap {".git", ".agent"} = {}
                           => l \in FileLocs \cap asked
  <2> SUFFICES ASSUME NEW l \in c.pattern, Tools!IsFile(l), Tools!IsPrefix(dir, l),
                      ~\E g \in dirs : <<g, l>> \in Ignores,
                      Tools!Range(l) \cap {".git", ".agent"} = {}
               PROVE  l \in FileLocs /\ Tools!Visible(dir, l)
    BY Zenon
  <2>1. {".git", ".agent"} \cap Tools!Range(l) = {}
    OBVIOUS
  <2>2. Tools!Visible(dir, l)
    BY <2>1, Zenon DEF Tools!Visible
  <2> QED
    BY <2>2 DEF Tools!IsFile
<1> HIDE DEF cap, asked
<1>5. /\ found \in Seq(FileLocs) /\ Len(found) \in Nat
      /\ \A i \in 1..Len(found) : found[i] \in asked
      /\ \A l \in FileLocs \cap asked : \E i \in 1..Len(found) : found[i] = l
  BY FoundAre, LenProperties DEF Places
<1> HIDE DEF found
<1>6. /\ listed \in Seq(FileLocs) /\ Len(listed) = IF cap <= Len(found) THEN cap ELSE Len(found)
      /\ \A i \in 1..Len(listed) : listed[i] = found[i] /\ i \in 1..Len(found)
  <2> DEFINE m == Tools!Min({cap, Len(found)})
  <2>1. cap \in Int /\ Len(found) \in Int
    BY <1>2, <1>5
  <2>2. m = IF cap <= Len(found) THEN cap ELSE Len(found)
    BY <2>1, OfTwo
  <2> HIDE DEF m
  <2>3. m \in 0..Len(found)
    BY <1>2, <1>5, <2>2
  <2>4. SubSeq(found, 1, m) \in Seq(FileLocs) /\ Len(SubSeq(found, 1, m)) = m /\ \A i \in 1..m : SubSeq(found, 1, m)[i] = found[i]
    BY <1>5, <2>3, Taken
  <2>5. \A i \in 1..m : i \in 1..Len(found)
    BY <1>5, <2>3
  <2> QED
    BY <2>2, <2>4, <2>5 DEF m
<1> HIDE DEF listed
<1>7. \A i \in 1..Len(listed) : Tools!IsFile(listed[i])
  BY <1>3, <1>5, <1>6
<1>8. ASSUME Len(listed) < cap, NEW l \in FileLocs \cap asked
      PROVE  l \in Tools!Range(listed)
  <2>1. Len(listed) = Len(found)
    BY <1>2, <1>5, <1>6, <1>8
  <2>2. PICK i \in 1..Len(found) : found[i] = l
    BY <1>5
  <2>3. i \in 1..Len(listed) /\ listed[i] = l /\ DOMAIN listed = 1..Len(listed)
    BY <1>6, <2>1, <2>2, LenProperties
  <2> QED
    BY <2>3 DEF Tools!Range
<1> DEFINE v == [listed |-> listed]
<1>9. v.listed = listed
  OBVIOUS
<1> HIDE DEF v
<1>10. Exact(c, v)
  <2>1. Len(listed) < cap =>
          \A l \in c.pattern : /\ Tools!IsFile(l) /\ Tools!IsPrefix(dir, l)
                               /\ ~\E g \in dirs : <<g, l>> \in Ignores
                               /\ Tools!Range(l) \cap {".git", ".agent"} = {}
                               => l \in Tools!Range(listed)
    BY <1>4, <1>8, Zenon
  <2>2. c.tool # "write_file" /\ c.tool # "read_file"
    OBVIOUS
  <2> QED
    BY <1>7, <1>9, <2>1, <2>2, Zenon DEF Exact, cap
<1> QED
  BY <1>1, <1>10, Zenon DEF v

LEMMA ReadIsExact ==
  ASSUME FilesShape, NEW c, Call(c), c.tool = "read_file", Tools!ReadFile(c)
  PROVE  /\ UNCHANGED <<disk, dirs>>
         /\ \/ answer' = [call |-> c, result |-> "error", val |-> Tools!Nothing]
            \/ \E v : answer' = [call |-> c, result |-> "ok", val |-> v] /\ Exact(c, v)
<1>1. UNCHANGED <<disk, dirs>> /\ \E r, v : answer' = [call |-> c, result |-> r, val |-> v]
         /\ ((r = "error" /\ v = Tools!Nothing) \/ r = "ok")
  BY Zenon DEF Tools!ReadFile, Tools!Answer
<1>2. PICK r, v : answer' = [call |-> c, result |-> r, val |-> v] /\ ((r = "error" /\ v = Tools!Nothing) \/ r = "ok")
  BY <1>1
<1>3. ASSUME r = "ok" PROVE Exact(c, v)
  <2>1. answer'.result = "ok" /\ answer'.val = v
    BY <1>2, <1>3
  <2>2. c.tool # "write_file" /\ c.tool # "list_files"
    OBVIOUS
  <2> QED
    BY <2>1, <2>2, ReadAnswers, Zenon DEF Exact
<1> QED
  BY <1>1, <1>2, <1>3

\* Nothing that is said of an answer changes while the files do not.
LEMMA SameExact ==
  ASSUME UNCHANGED <<disk, dirs>>, NEW c, Call(c), NEW v, Exact(c, v)
  PROVE  Exact(c, v)'
<1>1. c.raw \in Paths
  BY FilesAssumption, NamesArePaths DEF Tools!FileAssumption, Call
<1>2. Tools!Resolve(c.raw)' = Tools!Resolve(c.raw)
  BY <1>1, SameResolve
<1>3. \A l : Tools!IsFile(l)' = Tools!IsFile(l)
  BY DEF Tools!IsFile
<1> QED
  BY <1>2, <1>3, Zenon DEF Exact

LEMMA WriteIsExact ==
  ASSUME FilesShape, NEW c, Call(c), c.tool = "write_file", Tools!WriteFile(c)
  PROVE  \E r, v : answer' = [call |-> c, result |-> r, val |-> v] /\ (r = "ok" => Exact(c, v)')
<1>1. CASE Tools!Verdict(c) # "written"
  BY <1>1, RefusedWrite
<1>2. CASE Tools!Verdict(c) = "written"
  <2>1. PICK loc \in FileLocs, put \in Tools!Bodies, bom \in BOOLEAN :
          /\ loc = Tools!Counted(c.raw) /\ answer' = [call |-> c, result |-> "ok", val |-> [wrote |-> loc]]
          /\ Tools!Texts(put) = Tools!Texts(c.content)
          /\ disk' = [disk EXCEPT ![loc] = [file |-> TRUE, bom |-> bom, body |-> put]]
    <3> DEFINE at_ == Tools!ResolveForWrite(c.raw)
               old == IF Tools!IsFile(at_) THEN Tools!ReadForModel(disk[at_]) ELSE [ending |-> "lf", bom |-> FALSE]
               new == IF old.ending = "crlf" THEN Tools!AddReturns(c.content, 1) ELSE c.content
    <3>1. /\ at_ = Tools!Counted(c.raw) /\ at_ \in FileLocs /\ old.bom \in BOOLEAN
          /\ answer' = [call |-> c, result |-> "ok", val |-> [wrote |-> at_]]
          /\ new \in Tools!Bodies /\ c.content \in Tools!Bodies
          /\ disk' = [disk EXCEPT ![at_] = [file |-> TRUE, bom |-> old.bom, body |-> new]]
      BY <1>2, MadeWrite, Zenon
    <3>2. Tools!Texts(new) = Tools!Texts(c.content)
      BY <3>1, TextsAre
    <3> HIDE DEF at_, old, new
    <3> QED
      BY <3>1, <3>2
  <2> DEFINE v == [wrote |-> loc]
  <2>3. disk \in [FileLocs -> Tools!Contents]
    BY DEF FilesShape, Tools!TypeOK
  <2>4. disk'[loc].body = put
    BY <2>1, <2>3
  <2>5. v.wrote = loc
    OBVIOUS
  <2>6. Tools!Texts(Tools!ReadForModel(disk'[loc]).content) = Tools!Texts(c.content)
    <3>1. Tools!ReadForModel(disk'[loc]).content = Tools!AddReturns(put, -1)
      BY <2>4 DEF Tools!ReadForModel
    <3> QED
      BY <2>1, <3>1, TextsAre
  <2> HIDE DEF v
  <2>7. Exact(c, v)'
    <3>1. c.tool # "read_file" /\ c.tool # "list_files"
      OBVIOUS
    <3> QED
      BY <2>1, <2>5, <2>6, <3>1, Zenon DEF Exact
  <2> QED
    BY <2>1, <2>7 DEF v
<1> QED
  BY <1>1, <1>2

LEMMA FilesStep == FilesInv /\ [Tools!Next]_fileVars => FilesInv'
<1> SUFFICES ASSUME FilesInv, [Tools!Next]_fileVars PROVE FilesInv'
  OBVIOUS
<1> USE DEF FilesInv
<1>1. CASE UNCHANGED fileVars
  <2>1. UNCHANGED <<disk, dirs>> /\ answer' = answer
    BY <1>1 DEF fileVars
  <2>2. FilesShape'
    BY <2>1 DEF FilesShape, Tools!TypeOK
  <2>3. CASE answer = [result |-> "none"]
    BY <2>1, <2>2, <2>3 DEF AnswerIsExact
  <2>4. ASSUME NEW c \in Calls, NEW r, NEW v, answer = [call |-> c, result |-> r, val |-> v],
               r = "ok" => Call(c) /\ Exact(c, v)
        PROVE  AnswerIsExact'
    <3>1. r = "ok" => Call(c) /\ Exact(c, v)'
      BY <2>1, <2>4, SameExact
    <3> QED
      BY <2>1, <2>4, <3>1, Zenon DEF AnswerIsExact
  <2> QED
    BY <2>2, <2>3, <2>4 DEF AnswerIsExact
<1>2. ASSUME NEW c \in Calls,
             \/ Tools!UnknownTool(c) \/ Tools!BadArguments(c) \/ Tools!Elsewhere(c)
             \/ Tools!ReadFile(c) \/ Tools!WriteFile(c) \/ Tools!WriteFails(c) \/ Tools!ListFiles(c)
             \/ Tools!ContextOutline(c) \/ Tools!ContextSearch(c)
      PROVE  FilesInv'
  <2>1. ASSUME UNCHANGED <<disk, dirs>>, NEW r \in {"unknown", "bad", "ok", "error"}, NEW v,
               answer' = [call |-> c, result |-> r, val |-> v], r = "ok" => Call(c) /\ Exact(c, v)
        PROVE  FilesInv'
    <3>1. answer'.result \in {"unknown", "bad", "ok", "error"}
      BY <2>1
    <3>2. r = "ok" => Call(c) /\ Exact(c, v)'
      BY <2>1, SameExact
    <3>3. AnswerIsExact'
      BY <2>1, <3>2, Zenon DEF AnswerIsExact
    <3> QED
      BY <2>1, <3>1, <3>3, SameFilesShape
  <2>2. CASE Tools!UnknownTool(c)
    <3>1. UNCHANGED <<disk, dirs>> /\ answer' = [call |-> c, result |-> "unknown", val |-> Tools!Nothing]
      BY <2>2 DEF Tools!UnknownTool, Tools!Answer
    <3> QED
      BY <2>1, <3>1
  <2>3. CASE Tools!BadArguments(c)
    <3>1. UNCHANGED <<disk, dirs>> /\ answer' = [call |-> c, result |-> "bad", val |-> Tools!Nothing]
      BY <2>3 DEF Tools!BadArguments, Tools!Answer
    <3> QED
      BY <2>1, <3>1
  <2>4. CASE Tools!Elsewhere(c)
    <3>1. UNCHANGED <<disk, dirs>> /\ c.tool \in {"run_command", "web_search"} /\ Tools!Parses(c)
          /\ \E r \in {"ok", "error"} : answer' = [call |-> c, result |-> r, val |-> Tools!Nothing]
      BY <2>4 DEF Tools!Elsewhere, Tools!Answer
    <3>2. Call(c) /\ Exact(c, Tools!Nothing)
      <4>1. c.tool \in Tools!Names
        BY <3>1 DEF Tools!Names, Tools!Required
      <4>2. c.tool # "write_file" /\ c.tool # "read_file" /\ c.tool # "list_files"
        BY <3>1
      <4> QED
        BY <3>1, <4>1, <4>2, Zenon DEF Call, Exact
    <3> QED
      BY <2>1, <3>1, <3>2
  <2>5. CASE Tools!ReadFile(c)
    <3>1. Call(c) /\ c.tool = "read_file"
      BY <2>5 DEF Tools!ReadFile, Call, Tools!Names, Tools!Required
    <3> QED
      BY <2>1, <2>5, <3>1, ReadIsExact, SMTT(30)
  <2>6. CASE Tools!WriteFile(c)
    <3>1. Call(c) /\ c.tool = "write_file"
      BY <2>6 DEF Tools!WriteFile, Call, Tools!Names, Tools!Required
    <3>2. FilesShape'
      BY <2>6, <3>1, WriteKeepsShape
    <3>3. AnswerIsExact'
      BY <2>6, <3>1, WriteIsExact DEF AnswerIsExact
    <3> QED
      BY <3>2, <3>3
  <2>7. CASE Tools!ListFiles(c)
    <3>1. Call(c) /\ c.tool = "list_files"
      BY <2>7 DEF Tools!ListFiles, Call, Tools!Names, Tools!Required
    <3> QED
      BY <2>1, <2>7, <3>1, ListAnswers
  <2>8. CASE Tools!ContextOutline(c)
    <3>1. UNCHANGED <<disk, dirs>> /\ c.tool = "context_outline" /\ Tools!Parses(c)
          /\ \E r \in {"ok", "error"} : \E v : answer' = [call |-> c, result |-> r, val |-> v]
      BY <2>8, Zenon DEF Tools!ContextOutline, Tools!Answer
    <3>2. \A v : Call(c) /\ Exact(c, v)
      <4>1. c.tool \in Tools!Names
        BY <3>1 DEF Tools!Names, Tools!Required
      <4>2. c.tool # "write_file" /\ c.tool # "read_file" /\ c.tool # "list_files"
        BY <3>1
      <4> QED
        BY <3>1, <4>1, <4>2, Zenon DEF Call, Exact
    <3> QED
      BY <2>1, <3>1, <3>2
  <2>9. CASE Tools!ContextSearch(c)
    <3>1. UNCHANGED <<disk, dirs>> /\ c.tool = "context_search" /\ Tools!Parses(c)
          /\ \E r \in {"ok", "error"} : \E v : answer' = [call |-> c, result |-> r, val |-> v]
      BY <2>9, Zenon DEF Tools!ContextSearch, Tools!Answer
    <3>2. \A v : Call(c) /\ Exact(c, v)
      <4>1. c.tool \in Tools!Names
        BY <3>1 DEF Tools!Names, Tools!Required
      <4>2. c.tool # "write_file" /\ c.tool # "read_file" /\ c.tool # "list_files"
        BY <3>1
      <4> QED
        BY <3>1, <4>1, <4>2, Zenon DEF Call, Exact
    <3> QED
      BY <2>1, <3>1, <3>2
  <2>10. CASE Tools!WriteFails(c)
    <3>1. Call(c) /\ c.tool = "write_file"
      BY <2>10, Zenon DEF Tools!WriteFails, Call, Tools!Names, Tools!Required
    <3>2. PICK loc : Broken(c, loc)
      BY <2>10, <3>1, BrokenWrite
    <3>3. FilesShape'
      BY <3>2, BrokenKeepsShape
    <3>4. answer' = [call |-> c, result |-> "error", val |-> Tools!Nothing]
      BY <3>2 DEF Broken
    <3>5. "error" # "ok"
      OBVIOUS
    <3>6. AnswerIsExact'
      BY <3>4, <3>5, Zenon DEF AnswerIsExact
    <3> QED
      BY <3>3, <3>6
  <2> QED
    BY <1>2, <2>2, <2>3, <2>4, <2>5, <2>6, <2>7, <2>8, <2>9, <2>10
<1> QED
  BY <1>1, <1>2 DEF Tools!Next

LEMMA FilesExact == FilesInv => FilesAreExact
<1> SUFFICES ASSUME FilesInv PROVE FilesAreExact
  OBVIOUS
<1>1. Tools!TypeOK
  BY DEF FilesInv, FilesShape
<1>2. CASE answer = [result |-> "none"]
  <2>1. answer.result # "ok"
    BY <1>2
  <2> QED
    BY <1>1, <2>1 DEF FilesAreExact, Tools!WrittenIsRead, Tools!PagesAddUp, Tools!ListingIsComplete, Tools!Answered
<1>3. ASSUME NEW c \in Calls, NEW r, NEW v, answer = [call |-> c, result |-> r, val |-> v],
             r = "ok" => Call(c) /\ Exact(c, v)
      PROVE  FilesAreExact
  <2>1. answer.call = c /\ answer.val = v /\ answer.result = r
    BY <1>3
  <2>2. Tools!WrittenIsRead
    <3> SUFFICES ASSUME r = "ok", c.tool = "write_file"
                 PROVE  /\ Tools!Resolve(c.raw) \in {v.wrote, Tools!NoLoc} /\ v.wrote \in FileLocs
                        /\ Tools!Texts(Tools!ReadForModel(disk[v.wrote]).content) = Tools!Texts(c.content)
      BY <2>1, Zenon DEF Tools!WrittenIsRead, Tools!Answered
    <3>1. Call(c) /\ Exact(c, v)
      BY <1>3
    <3>2. c.raw \in Paths
      BY <3>1, FilesAssumption, NamesArePaths DEF Tools!FileAssumption, Call
    <3>3. Tools!NoLoc \notin dirs
      BY NamesArePaths DEF FilesInv, FilesShape
    <3>4. Tools!Resolve(c.raw) \in {Tools!Counted(c.raw), Tools!NoLoc}
      BY <3>2, <3>3, LookedUpIsCounted
    <3> QED
      BY <3>1, <3>4 DEF Exact
  <2>3. Tools!PagesAddUp
    <3> SUFFICES ASSUME r = "ok", c.tool = "read_file" PROVE Tools!PagesAddUp
      BY <2>1, Zenon DEF Tools!PagesAddUp, Tools!Answered
    <3>1. Exact(c, v)
      BY <1>3
    <3> QED
      BY <2>1, <3>1, Zenon DEF Exact, Tools!PagesAddUp
  <2>4. Tools!ListingIsComplete
    <3> SUFFICES ASSUME r = "ok", c.tool = "list_files" PROVE Tools!ListingIsComplete
      BY <2>1, Zenon DEF Tools!ListingIsComplete, Tools!Answered
    <3>1. Exact(c, v)
      BY <1>3
    <3>2. ASSUME NEW i \in 1..Len(v.listed) PROVE Tools!Resolve(v.listed[i]) = v.listed[i]
      <4>1. Tools!IsFile(v.listed[i])
        BY <3>1 DEF Exact
      <4> DEFINE l == v.listed[i]
      <4>2. l \in Tools!Locations /\ Tools!Parents(l) \subseteq dirs
        BY <4>1, ContentsAre DEF FilesInv
      <4> HIDE DEF l
      <4>3. Tools!Resolve(l) = l
        BY <4>1, <4>2, LocationNamesItself DEF l
      <4> QED
        BY <4>3 DEF l
    <3> QED
      BY <2>1, <3>1, <3>2, Zenon DEF Exact, Tools!ListingIsComplete
  <2> QED
    BY <1>1, <2>2, <2>3, <2>4 DEF FilesAreExact
<1> QED
  BY <1>2, <1>3 DEF FilesInv, AnswerIsExact

\* What a step does that touches the files, or is answered as a write that was made.
LEMMA WriteStepIs ==
  ASSUME FilesInv, Tools!Next
  PROVE  /\ answer'.result # "ok" =>
              \/ UNCHANGED <<disk, dirs>>
              \/ \E c, loc : Call(c) /\ c.tool = "write_file" /\ Broken(c, loc)
         /\ answer'.result = "ok" /\ answer'.call.tool = "write_file" =>
              \E c \in Calls : /\ Call(c) /\ c.tool = "write_file" /\ Tools!WriteFile(c)
                               /\ Tools!Verdict(c) = "written" /\ answer'.call = c
<1>1. PICK c \in Calls :
        \/ Tools!UnknownTool(c) \/ Tools!BadArguments(c) \/ Tools!Elsewhere(c)
        \/ Tools!ReadFile(c) \/ Tools!WriteFile(c) \/ Tools!WriteFails(c) \/ Tools!ListFiles(c)
        \/ Tools!ContextOutline(c) \/ Tools!ContextSearch(c)
  BY DEF Tools!Next
<1>2. CASE Tools!WriteFile(c)
  <2>1. Call(c) /\ c.tool = "write_file"
    BY <1>2 DEF Tools!WriteFile, Call, Tools!Names, Tools!Required
  <2>2. CASE Tools!Verdict(c) # "written"
    <3>1. UNCHANGED <<disk, dirs>> /\ answer'.result = "error"
      BY <1>2, <2>1, <2>2, RefusedWrite DEF FilesInv
    <3> QED
      BY <3>1
  <2>3. CASE Tools!Verdict(c) = "written"
    <3>1. \E v : answer' = [call |-> c, result |-> "ok", val |-> v]
      BY <1>2, <2>1, <2>3, MadeWrite, Zenon DEF FilesInv
    <3>2. answer'.result = "ok" /\ answer'.call = c
      BY <3>1
    <3> QED
      BY <1>2, <2>1, <2>3, <3>2
  <2> QED
    BY <2>2, <2>3
<1>3. CASE ~Tools!WriteFile(c) /\ ~Tools!WriteFails(c)
  <2>1. UNCHANGED <<disk, dirs>>
    BY <1>1, <1>3, Zenon
    DEF Tools!UnknownTool, Tools!BadArguments, Tools!Elsewhere, Tools!ReadFile, Tools!ListFiles,
        Tools!ContextOutline, Tools!ContextSearch
  <2>2. \E r, v : answer' = [call |-> c, result |-> r, val |-> v]
                  /\ (r = "ok" => c.tool # "write_file")
    <3>1. CASE Tools!UnknownTool(c) \/ Tools!BadArguments(c)
      BY <3>1 DEF Tools!UnknownTool, Tools!BadArguments, Tools!Answer
    <3>2. CASE Tools!Elsewhere(c)
      BY <3>2 DEF Tools!Elsewhere, Tools!Answer
    <3>3. ASSUME Tools!ReadFile(c) \/ Tools!ListFiles(c) \/ Tools!ContextOutline(c) \/ Tools!ContextSearch(c)
          PROVE  /\ \E r, v : answer' = [call |-> c, result |-> r, val |-> v]
                 /\ c.tool \in {"read_file", "list_files", "context_outline", "context_search"}
      BY <3>3, Zenon
      DEF Tools!ReadFile, Tools!ListFiles, Tools!ContextOutline, Tools!ContextSearch, Tools!Answer
    <3>4. c.tool \in {"read_file", "list_files", "context_outline", "context_search"} => c.tool # "write_file"
      OBVIOUS
    <3> QED
      BY <1>1, <1>3, <3>1, <3>2, <3>3, <3>4, Zenon
  <2>3. PICK r, v : answer' = [call |-> c, result |-> r, val |-> v] /\ (r = "ok" => c.tool # "write_file")
    BY <2>2
  <2>4. answer'.result = r /\ answer'.call = c
    BY <2>3
  <2> QED
    BY <2>1, <2>3, <2>4
<1>4. CASE Tools!WriteFails(c)
  <2>1. Call(c) /\ c.tool = "write_file"
    BY <1>4 DEF Tools!WriteFails, Call, Tools!Names, Tools!Required
  <2>2. PICK loc : Broken(c, loc)
    BY <1>4, <2>1, BrokenWrite DEF FilesInv
  <2>3. answer' = [call |-> c, result |-> "error", val |-> Tools!Nothing]
    BY <2>2 DEF Broken
  <2>4. answer'.result = "error"
    BY <2>3
  <2> QED
    BY <2>1, <2>2, <2>4
<1> QED
  BY <1>2, <1>3, <1>4

\* A write that was made, over a file that was there.
LEMMA Overwrite ==
  ASSUME FilesInv, Tools!Next, answer'.result = "ok", answer'.call.tool = "write_file",
         NEW l \in FileLocs, answer'.val.wrote = l, disk[l].file
  PROVE  \E put \in Tools!Bodies :
           /\ put = IF Tools!Dominant(disk[l].body) = "crlf" THEN Tools!AddReturns(answer'.call.content, 1)
                    ELSE answer'.call.content
           /\ answer'.call.content \in Tools!Bodies
           /\ disk' = [disk EXCEPT ![l] = [file |-> TRUE, bom |-> disk[l].bom, body |-> put]]
<1>1. PICK c \in Calls : /\ Call(c) /\ c.tool = "write_file" /\ Tools!WriteFile(c)
                         /\ Tools!Verdict(c) = "written" /\ answer'.call = c
  BY WriteStepIs
<1> DEFINE loc == Tools!ResolveForWrite(c.raw)
           old == IF Tools!IsFile(loc) THEN Tools!ReadForModel(disk[loc]) ELSE [ending |-> "lf", bom |-> FALSE]
           put == IF old.ending = "crlf" THEN Tools!AddReturns(c.content, 1) ELSE c.content
<1>2. /\ answer' = [call |-> c, result |-> "ok", val |-> [wrote |-> loc]]
      /\ put \in Tools!Bodies /\ c.content \in Tools!Bodies
      /\ disk' = [disk EXCEPT ![loc] = [file |-> TRUE, bom |-> old.bom, body |-> put]]
  BY <1>1, MadeWrite, Zenon DEF FilesInv
<1> HIDE DEF loc, put
<1>3. loc = l
  <2>1. answer'.val = [wrote |-> loc]
    BY <1>2
  <2> QED
    BY <2>1
<1>4. Tools!IsFile(loc)
  BY <1>3 DEF Tools!IsFile
<1>5. old = Tools!ReadForModel(disk[l])
  BY <1>3, <1>4, Zenon
<1> HIDE DEF old
<1>6. old.ending = Tools!Dominant(disk[l].body) /\ old.bom = disk[l].bom
  BY <1>5 DEF Tools!ReadForModel
<1>7. put = IF Tools!Dominant(disk[l].body) = "crlf" THEN Tools!AddReturns(c.content, 1) ELSE c.content
  BY <1>6, Zenon DEF put
<1> QED
  BY <1>1, <1>2, <1>3, <1>6, <1>7, Zenon

LEMMA RefusedStep == FilesInv /\ [Tools!Next]_fileVars =>
  [answer'.result # "ok" /\ (disk' # disk \/ dirs' # dirs) =>
     LET c   == answer'.call
         loc == Tools!Counted(c.raw)
     IN  /\ c.tool = "write_file" /\ Tools!Parses(c) /\ ~dry /\ ~(Tools!Length(c.content) > WriteMax)
         /\ loc \in FileLocs \ dirs
         /\ disk[loc].file => ~Tools!LooksElided(Tools!ReadForModel(disk[loc]).content, c.content)
         /\ dirs \subseteq dirs' /\ dirs' \ dirs \subseteq Tools!Parents(loc)
         /\ \A l \in FileLocs \ {loc} : disk'[l] = disk[l]
         /\ disk'[loc] # disk[loc] => Tools!IsPrefix(Tools!Texts(disk'[loc].body), Tools!Texts(c.content))]_fileVars
<1> SUFFICES ASSUME FilesInv, Tools!Next, answer'.result # "ok", disk' # disk \/ dirs' # dirs,
                    NEW c, c = answer'.call, NEW loc, loc = Tools!Counted(c.raw)
             PROVE  /\ c.tool = "write_file" /\ Tools!Parses(c) /\ ~dry /\ ~(Tools!Length(c.content) > WriteMax)
                    /\ loc \in FileLocs \ dirs
                    /\ disk[loc].file => ~Tools!LooksElided(Tools!ReadForModel(disk[loc]).content, c.content)
                    /\ dirs \subseteq dirs' /\ dirs' \ dirs \subseteq Tools!Parents(loc)
                    /\ \A l \in FileLocs \ {loc} : disk'[l] = disk[l]
                    /\ disk'[loc] # disk[loc] => Tools!IsPrefix(Tools!Texts(disk'[loc].body), Tools!Texts(c.content))
  BY Zenon DEF fileVars
<1>1. PICK d, l : Call(d) /\ d.tool = "write_file" /\ Broken(d, l)
  BY WriteStepIs
<1>2. c = d
  BY <1>1 DEF Broken
<1>3. loc = l /\ Broken(c, loc)
  BY <1>1, <1>2 DEF Broken
<1>4. /\ c.tool = "write_file" /\ Tools!Parses(c) /\ ~dry /\ ~(Tools!Length(c.content) > WriteMax)
      /\ loc \in FileLocs /\ loc \notin dirs
      /\ disk[loc].file => ~Tools!LooksElided(Tools!ReadForModel(disk[loc]).content, c.content)
  BY <1>1, <1>2, <1>3, Zenon DEF Broken, Call
<1>5. PICK way \in SUBSET Tools!Parents(loc) :
        /\ dirs' = dirs \cup way
        /\ \/ disk' = disk
           \/ \E f : /\ disk' = [disk EXCEPT ![loc] = f]
                     /\ Tools!IsPrefix(Tools!Texts(f.body), Tools!Texts(c.content))
  BY <1>3, Zenon DEF Broken
<1>6. disk \in [FileLocs -> Tools!Contents]
  BY DEF FilesInv, FilesShape, Tools!TypeOK
<1>7. dirs \subseteq dirs' /\ dirs' \ dirs \subseteq Tools!Parents(loc)
  BY <1>5
<1>8. /\ \A k \in FileLocs \ {loc} : disk'[k] = disk[k]
      /\ disk'[loc] # disk[loc] => Tools!IsPrefix(Tools!Texts(disk'[loc].body), Tools!Texts(c.content))
  BY <1>4, <1>5, <1>6
<1> QED
  BY <1>4, <1>7, <1>8

LEMMA RewriteStep == FilesInv /\ [Tools!Next]_fileVars =>
  [\A l \in FileLocs :
     /\ answer'.result = "ok" /\ answer'.call.tool = "write_file" /\ answer'.val.wrote = l
     /\ disk[l].file
     /\ Tools!Uniform(disk[l].body) /\ answer'.call.content = Tools!ReadForModel(disk[l]).content
     => disk' = disk]_fileVars
<1> SUFFICES ASSUME FilesInv, Tools!Next, NEW l \in FileLocs,
                    answer'.result = "ok", answer'.call.tool = "write_file", answer'.val.wrote = l,
                    disk[l].file, Tools!Uniform(disk[l].body),
                    answer'.call.content = Tools!ReadForModel(disk[l]).content
             PROVE  disk' = disk
  BY DEF fileVars
<1>1. PICK put \in Tools!Bodies :
        /\ put = IF Tools!Dominant(disk[l].body) = "crlf" THEN Tools!AddReturns(answer'.call.content, 1)
                 ELSE answer'.call.content
        /\ disk' = [disk EXCEPT ![l] = [file |-> TRUE, bom |-> disk[l].bom, body |-> put]]
  BY Overwrite
<1>2. /\ disk[l].body \in Tools!Bodies
      /\ disk[l] = [file |-> TRUE, bom |-> disk[l].bom, body |-> disk[l].body]
  BY ContentsAre DEF FilesInv, Tools!IsFile
<1>3. answer'.call.content = Tools!AddReturns(disk[l].body, -1)
  BY DEF Tools!ReadForModel
<1>4. put = disk[l].body
  BY <1>1, <1>2, <1>3, ShownIsPutBack, Zenon
<1>5. disk \in [FileLocs -> Tools!Contents]
  BY DEF FilesInv, FilesShape, Tools!TypeOK
<1> QED
  BY <1>1, <1>2, <1>4, <1>5

LEMMA ConventionStep == FilesInv /\ [Tools!Next]_fileVars =>
  [\A l \in FileLocs :
     /\ answer'.result = "ok" /\ answer'.call.tool = "write_file" /\ answer'.val.wrote = l
     /\ disk[l].file /\ Tools!Breaks(disk[l].body) # {}
     /\ Tools!CrlfBreaks(answer'.call.content) = {}
     => /\ disk'[l].bom = disk[l].bom
        /\ 2 * Tools!Cardinality(Tools!CrlfBreaks(disk[l].body)) < Tools!Cardinality(Tools!Breaks(disk[l].body))
             => Tools!CrlfBreaks(disk'[l].body) = {}
        /\ 2 * Tools!Cardinality(Tools!CrlfBreaks(disk[l].body)) > Tools!Cardinality(Tools!Breaks(disk[l].body))
             => Tools!CrlfBreaks(disk'[l].body) = Tools!Breaks(disk'[l].body)]_fileVars
<1> SUFFICES ASSUME FilesInv, Tools!Next, NEW l \in FileLocs,
                    answer'.result = "ok", answer'.call.tool = "write_file", answer'.val.wrote = l,
                    disk[l].file, Tools!CrlfBreaks(answer'.call.content) = {}
             PROVE  /\ disk'[l].bom = disk[l].bom
                    /\ 2 * Tools!Cardinality(Tools!CrlfBreaks(disk[l].body)) < Tools!Cardinality(Tools!Breaks(disk[l].body))
                         => Tools!CrlfBreaks(disk'[l].body) = {}
                    /\ 2 * Tools!Cardinality(Tools!CrlfBreaks(disk[l].body)) > Tools!Cardinality(Tools!Breaks(disk[l].body))
                         => Tools!CrlfBreaks(disk'[l].body) = Tools!Breaks(disk'[l].body)
  BY Zenon DEF fileVars
<1>1. PICK put \in Tools!Bodies :
        /\ put = IF Tools!Dominant(disk[l].body) = "crlf" THEN Tools!AddReturns(answer'.call.content, 1)
                 ELSE answer'.call.content
        /\ answer'.call.content \in Tools!Bodies
        /\ disk' = [disk EXCEPT ![l] = [file |-> TRUE, bom |-> disk[l].bom, body |-> put]]
  BY Overwrite
<1>2. disk[l].body \in Tools!Bodies
  BY ContentsAre DEF FilesInv, Tools!IsFile
<1>3. disk \in [FileLocs -> Tools!Contents]
  BY DEF FilesInv, FilesShape, Tools!TypeOK
<1>4. disk'[l].body = put /\ disk'[l].bom = disk[l].bom
  BY <1>1, <1>3
<1> QED
  BY <1>1, <1>2, <1>4, FeedsFollow, SMTT(30)

----------------------------------------------------------------------------
(* All of them together.                                                   *)

RunsInv == CloneInv /\ DryInv /\ GateInv /\ ItemInv /\ FilesInv /\ CommandInv /\ RequestInv

LEMMA RunsInitial == RunsInit => RunsInv
  BY CloneInitial, CloneStandsStill, DryInitial, GateInitial, GateStandsStill, ItemInitial, ItemStandsStill,
     FilesInitial, FilesStandStill, CommandInitial, CommandStandsStill, RequestInitial, RequestStandsStill
  DEF RunsInit, RunsInv

LEMMA RunsStep == RunsInv /\ [RunsNext]_all => RunsInv'
<1> SUFFICES ASSUME RunsInv, [RunsNext]_all PROVE RunsInv'
  OBVIOUS
<1>1. [Next]_vars
  BY DEF RunsNext, OfRuns, OfGating, OfItem, OfFiles, OfCommand, OfRequest, all
<1>2. [Gating!Next]_catalogueVars
  BY DEF RunsNext, OfRuns, OfGating, OfItem, OfFiles, OfCommand, OfRequest, all
<1>3. [Item!Next]_itemVars
  BY DEF RunsNext, OfRuns, OfGating, OfItem, OfFiles, OfCommand, OfRequest, all
<1>4. [Command!Next]_commandVars
  BY DEF RunsNext, OfRuns, OfGating, OfItem, OfFiles, OfCommand, OfRequest, all
<1>5. [Conversation!Next]_requestVars
  BY DEF RunsNext, OfRuns, OfGating, OfItem, OfFiles, OfCommand, OfRequest, all
<1>6. [Tools!Next]_fileVars
  BY DEF RunsNext, OfRuns, OfGating, OfItem, OfFiles, OfCommand, OfRequest, all
<1>7. pc \in [Runs -> Where]
  BY DEF RunsInv, CloneInv, CloneShape
<1> QED
  BY <1>1, <1>2, <1>3, <1>4, <1>5, <1>6, <1>7, CloneStep, DryStep, GateStep, ItemStep, FilesStep,
     CommandStep, RequestStep
  DEF RunsInv

THEOREM RunsHoldInv == RunsSpec => []RunsInv
  BY RunsInitial, RunsStep, PTL DEF RunsSpec

\* In every order of runs, a user, failures and kills: no edit of somebody else
\* is thrown away, an isolated branch holds what the clone's HEAD held and its
\* own run's edit, and what an isolated run reports is on its branch (repo.rs,
\* bin/codemason.rs).
THEOREM WorkStaysSafe == RunsSpec => []WorkIsSafe
  BY RunsHoldInv, CloneIsSafe, PTL DEF RunsInv

\* However many processes read, truncate and write the cache files without a lock
\* or die over them, a verdict is passed on one catalogue that was served, whole,
\* and no model passes that it does not offer with tool calling and enough
\* context (gating.rs).
THEOREM GateStaysSound == RunsSpec => []GateIsSound
<1>1. RunsInv => GateIsSound
  BY DEF RunsInv, GateInv, GateShape, GateIsSound
<1> QED
  BY <1>1, RunsHoldInv, PTL

\* For every size of the pipes and of what goes through them: an item that did not
\* end itself is not taken for one that did, and a report that was printed to its
\* end is believed (supervisor/execute.rs).
THEOREM ReportStaysBelieved == RunsSpec => []ReportIsBelieved
  BY RunsHoldInv, ItemBelieved, PTL DEF RunsInv

\* For any number of chunks, any size of a pipe and of the buffer: a command's
\* answer holds the end of all that was written, in order, and no process of its
\* group outlives it; and for any turns, however many, a request says all that the
\* conversation does but for results behind the last turns, and marks the last
\* message that can hold a marker (tools/exec.rs, compact.rs, llm/cache.rs).
THEOREM NothingStaysBack == RunsSpec => []NothingIsKeptBack
<1>1. RunsInv => NothingIsKeptBack
  BY OutputKept, RequestsWhole DEF RunsInv, NothingIsKeptBack
<1> QED
  BY <1>1, RunsHoldInv, PTL

\* For every keep: with elision off each request begins with the one before it, and
\* with it on a placeholder is sent again as it was (compact.rs, llm/cache.rs).
THEOREM RequestsKeepTheirPrefix == RunsSpec => PrefixOrElided
<1>1. RunsInv /\ [RunsNext]_all =>
        [/\ keep = 0 => Conversation!IsPrefix(wire.messages, wire'.messages)
         /\ \A i \in 1..Len(wire.messages) :
              wire.messages[i].text = "elided" => wire'.messages[i] = wire.messages[i]]_wire
  <2> SUFFICES ASSUME RunsInv, [RunsNext]_all, wire' # wire
               PROVE  /\ keep = 0 => Conversation!IsPrefix(wire.messages, wire'.messages)
                      /\ \A i \in 1..Len(wire.messages) :
                           wire.messages[i].text = "elided" => wire'.messages[i] = wire.messages[i]
    OBVIOUS
  <2>1. [Conversation!Next]_requestVars
    BY DEF RunsNext, OfRuns, OfGating, OfItem, OfFiles, OfCommand, OfRequest, all
  <2> QED
    BY <2>1, WireStep DEF RunsInv
<1> QED
  BY <1>1, RunsHoldInv, PTL DEF RunsSpec, PrefixOrElided, Conversation!PrefixOrElided

\* No step of an isolated run moves the clone's HEAD or touches what its tree
\* holds, no step of a dry run changes anything, and a cache file that is whole
\* holds a catalogue that was served (repo.rs, gating.rs).
THEOREM SharedStateStaysAlone == RunsSpec => SharedStateIsLeftAlone
<1>1. RunsInv /\ [RunsNext]_all =>
        [\A r \in Isolated \cup Dry :
           pc'[r] # pc[r] =>
             /\ trees'[Main] = trees[Main]
             /\ r \in Dry => branches' = branches /\ trees' = trees]_vars
  <2> SUFFICES ASSUME RunsInv, [RunsNext]_all, NEW r \in Isolated \cup Dry, pc'[r] # pc[r]
               PROVE  trees'[Main] = trees[Main] /\ (r \in Dry => branches' = branches /\ trees' = trees)
    OBVIOUS
  <2>1. [Next]_vars
    BY DEF RunsNext, OfRuns, OfGating, OfItem, OfFiles, OfCommand, OfRequest, all
  <2> QED
    BY <2>1, IsolatedStep DEF RunsInv
<1>2. RunsInv' =>
        \A k \in Gating!Keys : file'[k].is = "whole" =>
          \E s \in served' : KeyOf[s.url] = k /\ s.entries = file'[k].entries /\ s.at = file'[k].at
  BY DEF RunsInv, GateInv, FilesAreServed
<1> QED
  BY <1>1, <1>2, RunsHoldInv, PTL
  DEF RunsSpec, SharedStateIsLeftAlone, IsolatedRunLeavesTheCloneAlone, Gating!FilesAreNeverMixed

\* For any files, directories, ignore rules and calls, whatever was written before:
\* the path a file was written by reads that file or nothing, line for line what was
\* written; the pages of a file meet, none over the cap; and a listing below its cap
\* leaves out no file that it should name and names none that cannot be read
\* (tools/fs.rs, text.rs).
THEOREM FilesStayExact == RunsSpec => []FilesAreExact
  BY RunsHoldInv, FilesExact, PTL DEF RunsInv

\* For any bytes: a call that is not answered as done leaves the files and the
\* directories as they were, unless it is a write that passed every check and that
\* the system failed, which leaves directories on the way to its file and a beginning
\* of what the file was to be; a file of one kind of line break written back as it
\* was shown is the same file; and line feeds written over a file take the breaks
\* that most of its lines had, behind its byte order mark (tools/fs.rs, text.rs).
THEOREM WritesStayExact == RunsSpec => WritesAreExact
<1>1. [RunsNext]_all => [Tools!Next]_fileVars
  BY DEF RunsNext, OfRuns, OfGating, OfItem, OfFiles, OfCommand, OfRequest, all
<1> QED
  BY <1>1, RunsHoldInv, RefusedStep, RewriteStep, ConventionStep, PTL
  DEF RunsInv, RunsSpec, WritesAreExact, Tools!RefusedLeavesNoTrace, Tools!RewriteIsIdentity,
      Tools!ConventionIsKept, Tools!vars, fileVars
=============================================================================
