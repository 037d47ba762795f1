---------------------------- MODULE CatalogueGate ----------------------------
(***************************************************************************)
(* gating.rs: the provider's model catalogue behind a file cache that      *)
(* concurrent processes read and write without a lock, and the gate that   *)
(* decides on it; `codemason models --check` gates the whole allowlist.    *)
(*                                                                         *)
(* A catalogue is a set of entries, a file is absent, torn (its JSON does  *)
(* not parse) or whole.  fs::write truncates and then writes at offset 0:  *)
(* two processes between their truncation and their write overlay one      *)
(* another.                                                                *)
(***************************************************************************)
EXTENDS Naturals, FiniteSets

CONSTANTS
  Processes,
  Urls,          \* base URLs
  KeyOf,         \* the cache file's name for each, all but [A-Za-z0-9] being _
  Catalogues,    \* what a provider may list: sets of entries id, tools, context
  Allowlist,     \* models.toml
  Routers,       \* ids that match a router pattern
  MinContext,    \* gating.min_context_length
  Ttl,           \* CACHE_TTL
  Jobs,          \* what processes are started for: url, id (None: --check), allow
  MaxTime,       \* bound on the clock
  None

CatalogueAssumption ==
  /\ DOMAIN KeyOf = Urls
  /\ \A c \in Catalogues : \A d, e \in c :
       /\ e.tools \in BOOLEAN /\ e.context \in Nat
       /\ d.id = e.id => d = e
  /\ \A task \in Jobs : task.url \in Urls /\ task.allow \in BOOLEAN
  /\ Catalogues # {} /\ Jobs # {}
  /\ MinContext \in Nat /\ Ttl \in Nat \ {0} /\ MaxTime \in Nat

Keys == {KeyOf[u] : u \in Urls}

VARIABLES
  now,
  live,      \* what each provider lists
  file,      \* the cache files
  pc,        \* where each process is in catalogue() and check()
  job,       \* what it was started for: url, id (or None: --check) and flag
  got,       \* the catalogue it fetched or read, and how
  verdict,   \* what it came to
  served     \* history: what each provider listed at each time it answered

vars == <<now, live, file, pc, job, got, verdict, served>>

Absent == [is |-> "absent", at |-> 0, entries |-> {}]
Torn == [is |-> "torn", at |-> 0, entries |-> {}]
Whole(at, entries) == [is |-> "whole", at |-> at, entries |-> entries]

FileOf(p) == file[KeyOf[job[p].url]]
Goto(p, where) == pc' = [pc EXCEPT ![p] = where]

Init ==
  /\ now = 0
  /\ live \in [Urls -> Catalogues]
  /\ file = [k \in Keys |-> Absent]
  /\ pc = [p \in Processes |-> "read"]
  /\ job \in [Processes -> Jobs]
  /\ got = [p \in Processes |-> [how |-> "nothing", entries |-> {}, at |-> 0]]
  /\ verdict = [p \in Processes |-> "none"]
  /\ served = {}

-----------------------------------------------------------------------------
(* The gate.                                                               *)

\* check(): the first reason to reject, in the order of the code.
SkippingTools(id, allow, entries) ==
  LET listed == {e \in entries : e.id = id}
  IN  CASE id \notin Allowlist /\ ~allow -> "not allowed"
        [] listed = {} -> "not in catalogue"
        [] ~allow /\ ~\E e \in listed : e.tools -> "no tools"
        [] \E e \in listed : e.context < MinContext -> "context too small"
        [] id \in Routers -> "router"
        [] OTHER -> "ok"

Check(id, allow, entries) ==
  LET listed == {e \in entries : e.id = id}
  IN  CASE id \notin Allowlist /\ ~allow -> "not allowed"
        [] listed = {} -> "not in catalogue"
        [] ~\E e \in listed : e.tools -> "no tools"
        [] \E e \in listed : e.context < MinContext -> "context too small"
        [] id \in Routers -> "router"
        [] OTHER -> "ok"

\* models --check gates every entry of models.toml, without the flag.
Verdict(task, entries) ==
  IF task.id = None
  THEN IF \A id \in Allowlist : Check(id, FALSE, entries) = "ok"
       THEN "ok" ELSE "fails"
  ELSE Check(task.id, task.allow, entries)

-----------------------------------------------------------------------------
(* catalogue().                                                            *)

AnyAge(p) ==
  /\ pc[p] = "read"
  /\ IF FileOf(p).is = "whole"
     THEN /\ got' = [got EXCEPT ![p] = [how |-> "cache", at |-> now,
                                        entries |-> FileOf(p).entries]]
          /\ Goto(p, "gate")
     ELSE Goto(p, "fetch") /\ UNCHANGED got
  /\ UNCHANGED <<now, live, file, job, verdict, served>>

\* A file that cannot be read or parsed is no cache; a young one is the answer.
ReadCache(p) ==
  /\ pc[p] = "read"
  /\ IF FileOf(p).is = "whole" /\ now - FileOf(p).at < Ttl
     THEN /\ got' = [got EXCEPT ![p] = [how |-> "cache", at |-> now,
                                        entries |-> FileOf(p).entries]]
          /\ Goto(p, "gate")
     ELSE Goto(p, "fetch") /\ UNCHANGED got
  /\ UNCHANGED <<now, live, file, job, verdict, served>>

FetchLive(p) ==
  LET listed == live[job[p].url]
  IN  /\ pc[p] = "fetch"
      /\ got' = [got EXCEPT ![p] = [how |-> "live", at |-> now,
                                    entries |-> listed]]
      /\ served' = served \cup {[url |-> job[p].url, at |-> now,
                                 entries |-> listed]}
      /\ Goto(p, "truncate")
      /\ UNCHANGED <<now, live, file, job, verdict>>

\* The request or its body fails: whatever is cached by now, of any age.
FallBack(p) ==
  /\ pc[p] = "fetch"
  /\ IF FileOf(p).is = "whole"
     THEN /\ got' = [got EXCEPT ![p] = [how |-> "stale", at |-> now,
                                        entries |-> FileOf(p).entries]]
          /\ Goto(p, "gate") /\ UNCHANGED verdict
     ELSE /\ Goto(p, "done")
          /\ verdict' = [verdict EXCEPT ![p] = "provider error"]
          /\ UNCHANGED got
  /\ UNCHANGED <<now, live, file, job, served>>

\* write_cache: its errors are dropped, so it may also do nothing.
Truncate(p) ==
  /\ pc[p] = "truncate"
  /\ file' = [file EXCEPT ![KeyOf[job[p].url]] = Torn]
  /\ Goto(p, "write")
  /\ UNCHANGED <<now, live, job, got, verdict, served>>

SkipWrite(p) ==
  /\ pc[p] = "truncate"
  /\ Goto(p, "gate")
  /\ UNCHANGED <<now, live, file, job, got, verdict, served>>

MergeFiles(old, new) ==
  IF old.is = "whole" THEN Whole(new.at, old.entries \cup new.entries) ELSE new

\* Over an empty file, or a shorter one, the new text is all there is; the rest
\* of a longer one stays behind it.
Overlay(old, new) ==
  IF old.is = "whole" /\ Cardinality(old.entries) > Cardinality(new.entries)
  THEN Torn ELSE new

WriteIntoEmpty(p) ==
  /\ pc[p] = "write" /\ FileOf(p).is = "torn"
  /\ file' = [file EXCEPT ![KeyOf[job[p].url]] = Whole(got[p].at, got[p].entries)]
  /\ Goto(p, "gate")
  /\ UNCHANGED <<now, live, job, got, verdict, served>>

Write(p) ==
  /\ pc[p] = "write"
  /\ file' = [file EXCEPT ![KeyOf[job[p].url]] =
                Overlay(@, Whole(got[p].at, got[p].entries))]
  /\ Goto(p, "gate")
  /\ UNCHANGED <<now, live, job, got, verdict, served>>

Gate(p) ==
  /\ pc[p] = "gate"
  /\ verdict' = [verdict EXCEPT ![p] = Verdict(job[p], got[p].entries)]
  /\ Goto(p, "done")
  /\ UNCHANGED <<now, live, file, job, got, served>>

\* Killed between truncating and writing, it leaves an empty file.
Kill(p) ==
  /\ pc[p] \in {"truncate", "write"}
  /\ Goto(p, "done")
  /\ UNCHANGED <<now, live, file, job, got, verdict, served>>

Tick ==
  /\ now < MaxTime
  /\ now' = now + 1
  /\ UNCHANGED <<live, file, pc, job, got, verdict, served>>

\* The provider adds, drops or changes a model.
Relist(u) ==
  /\ \E listed \in Catalogues : live' = [live EXCEPT ![u] = listed]
  /\ UNCHANGED <<now, file, pc, job, got, verdict, served>>

Step(p) ==
  \/ ReadCache(p) \/ FetchLive(p) \/ FallBack(p)
  \/ Truncate(p) \/ SkipWrite(p) \/ Write(p) \/ Gate(p)

Next ==
  \/ \E p \in Processes : Step(p) \/ Kill(p)
  \/ \E u \in Urls : Relist(u)
  \/ Tick

Spec == Init /\ [][Next]_vars /\ \A p \in Processes : WF_vars(Step(p))

-----------------------------------------------------------------------------
(* Properties.                                                             *)

TypeOK ==
  /\ now \in 0..MaxTime
  /\ live \in [Urls -> Catalogues]
  /\ \A k \in Keys : /\ file[k].is \in {"absent", "torn", "whole"}
                     /\ file[k].at \in 0..now /\ file[k].entries \in Catalogues \cup {{}}
  /\ job \in [Processes -> Jobs]
  /\ \A p \in Processes :
       /\ got[p].how \in {"nothing", "cache", "live", "stale"}
       /\ got[p].entries \in Catalogues \cup {{}}
       /\ pc[p] \in {"truncate", "write"} => got[p].how = "live"
       /\ pc[p] = "gate" => got[p].how # "nothing"

\* Base URLs that differ in punctuation only have one cache file between them.
SameFile(u, v) == KeyOf[u] = KeyOf[v]

\* What catalogue(base_url) returns is one catalogue that a provider of this cache
\* file served, whole, whatever other processes do to the file at the same time or
\* die over; and unless the provider failed just now it was served within the TTL.
CatalogueIsGenuine ==
  \A p \in Processes : got[p].how # "nothing" =>
    \E s \in served :
      /\ SameFile(s.url, job[p].url) /\ s.entries = got[p].entries
      /\ got[p].how # "stale" => got[p].at - s.at < Ttl
      /\ got[p].how = "live" => s.url = job[p].url

\* A model that passes the gate was offered with tool calling by a provider of the
\* cache file of the one the run will call, whatever the flag says (SPEC.md T2.3,
\* "Check 2 has no bypass"), and `models --check` passes only if a run of any
\* listed model would, on that same catalogue.
PassingMeansOffered ==
  \A p \in Processes : verdict[p] = "ok" =>
    \E s \in served : SameFile(s.url, job[p].url) /\
      \A id \in IF job[p].id = None THEN Allowlist ELSE {job[p].id} :
        \E e \in s.entries : e.id = id /\ e.tools /\ e.context >= MinContext

\* A file, once whole, never holds a catalogue nobody served: it may be older
\* than what it replaces, never a mixture of two.
FilesAreNeverMixed ==
  [][\A k \in Keys : file'[k].is = "whole" =>
       \E s \in served' : KeyOf[s.url] = k /\ s.entries = file'[k].entries
                          /\ s.at = file'[k].at]_vars

\* A process that is not killed comes to a verdict, provider or not.
VerdictIsReached == <>(\A p \in Processes : pc[p] = "done")
=============================================================================
