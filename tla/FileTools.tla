----------------------------- MODULE FileTools -----------------------------
(***************************************************************************)
(* The tools of one codemason run that touch the repository's files:       *)
(* src/src/tools/mod.rs (dispatch), fs.rs, context.rs and the text         *)
(* conventions of src/src/text.rs.                                         *)
(*                                                                         *)
(* A path is the sequence of its components and a location the sequence of *)
(* names from the repository's root; there are no symbolic links.  A text  *)
(* is a sequence of lines, each with what follows it: a line feed after    *)
(* `cr` carriage returns, or nothing, which only the last line may have    *)
(* (cr = Open).  The length of a text is counted with Size.                *)
(***************************************************************************)
EXTENDS Integers, FiniteSets, SequencesExt, FiniteSetsExt

CONSTANTS
  FileLocs,    \* the locations a file may have
  Dirs0,       \* the directories there are to begin with, the root among them
  Disks0,      \* the contents of the repository to begin with
  Indexed,     \* the locations whose extension the engine indexes
  Ignores,     \* <<directory, location>>: the .gitignore of one names the other
  WalkOrder,   \* the file locations in the order of a walk sorted by name
  Calls,       \* the tool calls the model may make
  Size,        \* text of a line -> its length
  Markers,     \* the line texts that hold an elision marker
  Nul,         \* a line text that holds a null byte
  ReadCap,     \* READ_LINE_CAP
  ListDefault, \* DEFAULT_MAX_RESULTS
  WriteMax     \* WRITE_MAX_BYTES

Open == -1
Absent == [file |-> FALSE]
NoLoc == <<"no location">>

VARIABLES
  dry,    \* --dry-run
  index,  \* location -> symbols of the file when the index was built
  disk,   \* location -> file, or Absent
  dirs,   \* the directories
  answer  \* the last call, its result and what it returned, by its kind

vars == <<dry, index, disk, dirs, answer>>

----------------------------------------------------------------------------
(* Texts.                                                                  *)

Texts(body) == [i \in 1..Len(body) |-> body[i][1]]

Length(body) ==
  MapThenFoldSet(+, 0, LAMBDA i : Size[body[i][1]] + body[i][2] + 1,
                 LAMBDA S : CHOOSE i \in S : TRUE, 1..Len(body))

Breaks(body) == {i \in 1..Len(body) : body[i][2] # Open}
CrlfBreaks(body) == {i \in Breaks(body) : body[i][2] > 0}

\* Any carriage return makes a CRLF file; ties go to it.
Dominant(body) ==
  IF /\ CrlfBreaks(body) # {}
     /\ 2 * Cardinality(CrlfBreaks(body)) >= Cardinality(Breaks(body))
  THEN "crlf" ELSE "lf"

AddReturns(body, n) ==
  [i \in 1..Len(body) |-> <<body[i][1], IF body[i][2] = Open THEN Open ELSE Max({0, body[i][2] + n})>>]

\* What the model is shown of a file, and what is remembered to write it back.
ReadForModel(f) == [content |-> AddReturns(f.body, -1), ending |-> Dominant(f.body), bom |-> f.bom]

\* The byte order mark is not put back.
RestoreBare(content, ending, bom) ==
  [file |-> TRUE, bom |-> FALSE, body |-> IF ending = "crlf" THEN AddReturns(content, 1) ELSE content]

\* Line feeds are written as they come.
RestoreLf(content, ending, bom) == [file |-> TRUE, bom |-> bom, body |-> content]

RestoreForWrite(content, ending, bom) ==
  [file |-> TRUE, bom |-> bom, body |-> IF ending = "crlf" THEN AddReturns(content, 1) ELSE content]

LooksElided(existing, new) ==
  /\ existing # <<>>
  /\ Length(new) < Length(existing) \div 2
  /\ \E i \in 1..Len(new) : new[i][1] \in Markers

SymbolsOf(body) == Range(Texts(body))

----------------------------------------------------------------------------
(* Paths.                                                                  *)

IsFile(loc) == loc \in FileLocs /\ disk[loc].file

\* Where the next component of a path leads, by what there is.
Enter(loc, name) ==
  IF loc \notin dirs THEN NoLoc
  ELSE IF name = "." THEN loc
  ELSE IF name = ".." THEN IF loc = <<>> THEN NoLoc ELSE Front(loc)
  ELSE IF Append(loc, name) \in dirs \/ IsFile(Append(loc, name)) THEN Append(loc, name)
  ELSE NoLoc

\* to_repo_relative: every component is looked up, and the end must be inside.
Resolve(raw) ==
  LET walk[n \in 0..Len(raw)] == IF n = 0 THEN <<>> ELSE Enter(walk[n - 1], raw[n])
  IN  walk[Len(raw)]

\* A parent component is kept as if it were a name.
ResolveNoPop(raw) ==
  LET loc == FoldLeft(LAMBDA l, name : IF name \in {".", ".."} THEN l ELSE Append(l, name), <<>>, raw)
  IN  IF loc = <<>> THEN NoLoc ELSE loc

\* Where it leads by the components alone.
Count(loc, name) ==
  IF loc = NoLoc \/ name = "." THEN loc
  ELSE IF name = ".." THEN IF loc = <<>> THEN NoLoc ELSE Front(loc)
  ELSE Append(loc, name)

Counted(raw) ==
  LET walk[n \in 0..Len(raw)] == IF n = 0 THEN <<>> ELSE Count(walk[n - 1], raw[n])
  IN  walk[Len(raw)]

Parents(loc) == {SubSeq(loc, 1, i) : i \in 0..Len(loc) - 1}

\* to_repo_relative_for_write: components are counted, and none on the way is a file.
ResolveForWrite(raw) ==
  LET loc == Counted(raw)
  IN  IF loc = <<>> \/ \E l \in Parents(loc) : IsFile(l) THEN NoLoc ELSE loc

----------------------------------------------------------------------------
(* Calls.                                                                  *)

\* The arguments without a default; every other one may be left out, and none may
\* be null.
Required ==
  [context_search |-> {"query"}, context_outline |-> {"path"}, read_file |-> {"path"},
   write_file |-> {"path", "content"}, list_files |-> {}, run_command |-> {"command"},
   web_search |-> {"query"}]

Names == DOMAIN Required

Parses(c) == Required[c.tool] \subseteq c.given /\ ~c.null

Nothing == [none |-> TRUE]
Answer(c, result, val) == answer' = [call |-> c, result |-> result, val |-> val]

\* Locations are made of proper names; the directories on the way to one that is
\* there are there; a walk comes by every file; and a write goes to a location of
\* the model or is stopped by what was there from the start.
Locations == Seq(STRING \ {".", "..", NoLoc[1]})
Bodies == Seq((DOMAIN Size) \X (Nat \union {Open}))
Contents == {Absent} \union [file : {TRUE}, bom : BOOLEAN, body : Bodies]

FileAssumption ==
  /\ FileLocs \subseteq Locations \ {<<>>} /\ Dirs0 \subseteq Locations /\ <<>> \in Dirs0
  /\ Disks0 \subseteq [FileLocs -> Contents] /\ Disks0 # {}
  /\ \A loc \in Dirs0 : Parents(loc) \subseteq Dirs0
  /\ \A d \in Disks0 : \A loc \in FileLocs : d[loc].file => Parents(loc) \subseteq Dirs0
  /\ WalkOrder \in Seq(FileLocs) /\ FileLocs \subseteq Range(WalkOrder)
  /\ ReadCap \in Nat \ {0} /\ ListDefault \in Nat
  /\ \A c \in Calls : c.tool \in Names /\ Parses(c) =>
       /\ c.raw \in Seq(STRING)
       /\ c.tool = "read_file" => c.from \in Int /\ c.to \in Int
       /\ c.tool = "list_files" => c.max \in Int
       /\ c.tool = "write_file" =>
            /\ c.content \in Bodies
            /\ \/ Counted(c.raw) \in FileLocs \union Dirs0 \union {NoLoc}
               \/ \E l \in Parents(Counted(c.raw)) \intersect FileLocs : \A d \in Disks0 : d[l].file

Init ==
  /\ dry \in BOOLEAN
  /\ disk \in Disks0
  /\ dirs = Dirs0
  /\ index = [l \in {l \in Indexed : IsFile(l)} |-> SymbolsOf(disk[l].body)]
  /\ answer = [result |-> "none"]

UnknownTool(c) ==
  /\ c.tool \notin Names
  /\ Answer(c, "unknown", Nothing)
  /\ UNCHANGED <<dry, index, disk, dirs>>

BadArguments(c) ==
  /\ c.tool \in Names
  /\ ~Parses(c)
  /\ Answer(c, "bad", Nothing)
  /\ UNCHANGED <<dry, index, disk, dirs>>

\* Commands and searches of the web have modules of their own.
Elsewhere(c) ==
  /\ c.tool \in {"run_command", "web_search"} /\ Parses(c)
  /\ \E r \in {"ok", "error"} : Answer(c, r, Nothing)
  /\ UNCHANGED <<dry, index, disk, dirs>>

\* What was shown starts one line late.
PageLate(total, from, to) ==
  LET start == IF from <= 0 THEN 1 ELSE from
      end   == IF to <= 0 THEN total ELSE Min({to, total})
  IN  [lo |-> start, hi |-> Min({end, start + ReadCap}), more |-> Max({0, end - (start + ReadCap - 1)}),
       valid |-> start <= total /\ start <= end]

\* The lines of a file of `total` lines that a request for from..to is shown.
Page(total, from, to) ==
  LET start == IF from <= 0 THEN 1 ELSE from
      end   == IF to <= 0 THEN total ELSE Min({to, total})
      last  == Min({end, start + ReadCap - 1})
  IN  [lo |-> start, hi |-> last, more |-> end - last, valid |-> start <= total /\ start <= end]

ReadFile(c) ==
  /\ c.tool = "read_file" /\ Parses(c)
  /\ LET loc   == Resolve(c.raw)
         shown == Texts(ReadForModel(disk[loc]).content)
         page  == Page(Len(shown), c.from, c.to)
     IN  IF loc = NoLoc \/ ~IsFile(loc) \/ Nul \in Range(Texts(disk[loc].body))
         THEN Answer(c, "error", Nothing)
         ELSE IF shown = <<>> THEN Answer(c, "ok", [page |-> [lo |-> 1, more |-> 0, lines |-> <<>>]])
         ELSE IF page.valid
         THEN Answer(c, "ok", [page |-> [lo |-> page.lo, more |-> page.more,
                                         lines |-> SubSeq(shown, page.lo, page.hi)]])
         ELSE Answer(c, "error", Nothing)
  /\ UNCHANGED <<dry, index, disk, dirs>>

\* What stops a write, in the order the checks are made; "blocked" is a directory
\* where the file would be.
Verdict(c) ==
  LET loc == ResolveForWrite(c.raw)
  IN  IF dry THEN "dry"
      ELSE IF Length(c.content) > WriteMax THEN "big"
      ELSE IF loc = NoLoc THEN "path"
      ELSE IF loc \in dirs THEN "blocked"
      ELSE IF IsFile(loc) /\ LooksElided(ReadForModel(disk[loc]).content, c.content) THEN "elided"
      ELSE "written"

\* Directories are made before anything is checked.
CreatedEarly(c) == IF ResolveForWrite(c.raw) = NoLoc THEN {} ELSE Parents(ResolveForWrite(c.raw))

Created(c) ==
  IF Verdict(c) \in {"blocked", "elided", "written"} THEN Parents(ResolveForWrite(c.raw)) ELSE {}

\* What is to be written: the line breaks and the byte order mark are the ones of
\* the file that is there.
Put(c) ==
  LET loc == ResolveForWrite(c.raw)
      old == IF IsFile(loc) THEN ReadForModel(disk[loc]) ELSE [ending |-> "lf", bom |-> FALSE]
  IN  RestoreForWrite(c.content, old.ending, old.bom)

WriteFile(c) ==
  /\ c.tool = "write_file" /\ Parses(c)
  /\ dirs' = dirs \union Created(c)
  /\ IF Verdict(c) = "written"
     THEN LET loc == ResolveForWrite(c.raw)
          IN  disk' = [disk EXCEPT ![loc] = Put(c)] /\ Answer(c, "ok", [wrote |-> loc])
     ELSE disk' = disk /\ Answer(c, "error", Nothing)
  /\ UNCHANGED <<dry, index>>

\* The first n lines of a text, the last of them without its line break.
Bare(body, n) == [i \in 1..n |-> IF i = n THEN <<body[i][1], Open>> ELSE body[i]]

\* What a write of a file leaves of it when it stops before its end.
Leavings(f) ==
  ({[f EXCEPT !.bom = FALSE, !.body = <<>>]}
     \union {[f EXCEPT !.body = SubSeq(f.body, 1, n)] : n \in 0..Len(f.body)}
     \union {[f EXCEPT !.body = Bare(f.body, n)] : n \in {n \in 1..Len(f.body) : Size[f.body[n][1]] > 0}})
  \ {f}

\* The checks are passed and the system fails the write: a directory cannot be made,
\* the file cannot be opened, or it is emptied and not written to its end.
WriteFails(c) ==
  /\ c.tool = "write_file" /\ Parses(c) /\ Verdict(c) = "written"
  /\ LET loc == ResolveForWrite(c.raw)
     IN  \/ /\ \E n \in 0..Len(loc) - 1 : dirs' = dirs \union {SubSeq(loc, 1, i) : i \in 0..n}
            /\ disk' = disk
         \/ /\ dirs' = dirs \union Created(c)
            /\ \E f \in Leavings(Put(c)) : disk' = [disk EXCEPT ![loc] = f]
  /\ Answer(c, "error", Nothing)
  /\ UNCHANGED <<dry, index>>

\* Only the directory itself is looked at.
VisibleFlat(dir, loc) == IsFile(loc) /\ Len(loc) = Len(dir) + 1 /\ IsPrefix(dir, loc)

\* The .gitignore files above the directory the walk starts from are not read.
Visible(dir, loc) ==
  /\ IsFile(loc) /\ IsPrefix(dir, loc)
  /\ {".git", ".agent"} \intersect Range(loc) = {}
  /\ ~\E g \in dirs : IsPrefix(dir, g) /\ <<g, loc>> \in Ignores

\* What a walk meets of some locations, in its order.
Found(locs) ==
  LET met[n \in 0..Len(WalkOrder)] ==
        IF n = 0 THEN <<>>
        ELSE IF WalkOrder[n] \in locs THEN Append(met[n - 1], WalkOrder[n]) ELSE met[n - 1]
  IN  met[Len(WalkOrder)]

ListFiles(c) ==
  /\ c.tool = "list_files" /\ Parses(c)
  /\ LET dir   == Resolve(c.raw)
         cap   == IF c.max <= 0 THEN ListDefault ELSE c.max
         found == Found({l \in c.pattern : Visible(dir, l)})
     IN  IF dir \notin dirs
         THEN Answer(c, "error", Nothing)
         ELSE Answer(c, "ok", [listed |-> SubSeq(found, 1, Min({cap, Len(found)}))])
  /\ UNCHANGED <<dry, index, disk, dirs>>

\* The file must exist; what is told of it was true when the index was built.
ContextOutline(c) ==
  /\ c.tool = "context_outline" /\ Parses(c)
  /\ LET loc == Resolve(c.raw)
     IN  IF loc = NoLoc \/ loc \notin DOMAIN index
         THEN Answer(c, "error", Nothing)
         ELSE Answer(c, "ok", [outline |-> index[loc]])
  /\ UNCHANGED <<dry, index, disk, dirs>>

\* The ranking has a module of its own: any of the indexed files may be found.
ContextSearch(c) ==
  /\ c.tool = "context_search" /\ Parses(c)
  /\ IF c.raw = <<>>
     THEN Answer(c, "error", Nothing)
     ELSE \E found \in SUBSET DOMAIN index : Answer(c, "ok", [found |-> found])
  /\ UNCHANGED <<dry, index, disk, dirs>>

Next ==
  \E c \in Calls :
    \/ UnknownTool(c) \/ BadArguments(c) \/ Elsewhere(c)
    \/ ReadFile(c) \/ WriteFile(c) \/ WriteFails(c) \/ ListFiles(c) \/ ContextOutline(c) \/ ContextSearch(c)

Spec == Init /\ [][Next]_vars

----------------------------------------------------------------------------
(* Properties.                                                             *)

Answered(tool, result) ==
  answer.result = result /\ answer.call.tool = tool

TypeOK ==
  /\ disk \in [FileLocs -> Contents]
  /\ Dirs0 \subseteq dirs
  /\ \A l \in FileLocs : disk[l].file => Parents(l) \subseteq dirs
  /\ answer.result \in {"none", "unknown", "bad", "ok", "error"}

\* A call that is refused, simulated or not understood leaves no trace, not even a
\* directory on the way to the file (fs.rs: "each check runs before anything touches
\* the filesystem").  What is answered as an error and leaves one is a write that
\* passed every check and that the system failed: it leaves no more than directories
\* on the way to its file, and the file as it was or a beginning of what it was to be.
RefusedLeavesNoTrace ==
  [][answer'.result # "ok" /\ (disk' # disk \/ dirs' # dirs) =>
       LET c   == answer'.call
           loc == Counted(c.raw)
       IN  /\ c.tool = "write_file" /\ Parses(c) /\ ~dry /\ ~(Length(c.content) > WriteMax)
           /\ loc \in FileLocs \ dirs
           /\ disk[loc].file => ~LooksElided(ReadForModel(disk[loc]).content, c.content)
           /\ dirs \subseteq dirs' /\ dirs' \ dirs \subseteq Parents(loc)
           /\ \A l \in FileLocs \ {loc} : disk'[l] = disk[l]
           /\ disk'[loc] # disk[loc] => IsPrefix(Texts(disk'[loc].body), Texts(c.content))]_vars

\* Whatever path a file was written by, the same path then reads that file or
\* nothing, never another one, and its lines are the lines that were written.
WrittenIsRead ==
  Answered("write_file", "ok") =>
    /\ Resolve(answer.call.raw) \in {answer.val.wrote, NoLoc}
    /\ answer.val.wrote \in FileLocs
    /\ Texts(ReadForModel(disk[answer.val.wrote]).content) = Texts(answer.call.content)

Uniform(body) == \E n \in {0, 1} : \A i \in Breaks(body) : body[i][2] = n

\* A file with one kind of line break that is written back as it was shown is the
\* same file, byte order mark included, and nothing else has changed.
RewriteIsIdentity ==
  [][\A l \in FileLocs :
       /\ answer'.result = "ok" /\ answer'.call.tool = "write_file" /\ answer'.val.wrote = l
       /\ disk[l].file
       /\ Uniform(disk[l].body) /\ answer'.call.content = ReadForModel(disk[l]).content
       => disk' = disk]_vars

\* A write of line feeds over a file that has line breaks leaves every break as the
\* file's breaks mostly were.
ConventionIsKept ==
  [][\A l \in FileLocs :
       /\ answer'.result = "ok" /\ answer'.call.tool = "write_file" /\ answer'.val.wrote = l
       /\ disk[l].file /\ Breaks(disk[l].body) # {}
       /\ CrlfBreaks(answer'.call.content) = {}
       => /\ disk'[l].bom = disk[l].bom
          /\ 2 * Cardinality(CrlfBreaks(disk[l].body)) < Cardinality(Breaks(disk[l].body))
               => CrlfBreaks(disk'[l].body) = {}
          /\ 2 * Cardinality(CrlfBreaks(disk[l].body)) > Cardinality(Breaks(disk[l].body))
               => CrlfBreaks(disk'[l].body) = Breaks(disk'[l].body)]_vars

\* A page holds at most the cap, tells how many lines of the request are left, and
\* asking again from the line after it misses none and repeats none.
PagesAddUp ==
  Answered("read_file", "ok") =>
    LET c == answer.call
        all == Texts(disk[Resolve(c.raw)].body)
        end == IF c.to <= 0 THEN Len(all) ELSE Min({c.to, Len(all)})
        next == answer.val.page.lo + Len(answer.val.page.lines)
    IN  /\ Len(answer.val.page.lines) <= ReadCap
        /\ answer.val.page.lines = SubSeq(all, answer.val.page.lo, next - 1)
        /\ answer.val.page.more = end - next + 1

\* A listing shorter than its cap is complete, and what it lists can be read.
ListingIsComplete ==
  Answered("list_files", "ok") =>
    LET c == answer.call
        dir == Resolve(c.raw)
    IN  /\ \A i \in 1..Len(answer.val.listed) : Resolve(answer.val.listed[i]) = answer.val.listed[i]
        /\ Len(answer.val.listed) < (IF c.max <= 0 THEN ListDefault ELSE c.max) =>
             \A l \in c.pattern :
               /\ IsFile(l) /\ IsPrefix(dir, l)
               /\ ~\E g \in dirs : <<g, l>> \in Ignores
               /\ Range(l) \intersect {".git", ".agent"} = {}
               => l \in Range(answer.val.listed)
=============================================================================
