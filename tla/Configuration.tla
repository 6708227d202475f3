----------------------------- MODULE Configuration -----------------------------
(***************************************************************************)
(* How a pipeline is put together: Read decodes the files of a directory,  *)
(* Merge makes one pipeline of them, and Run fetches its imports, reads    *)
(* their directories the same way, imports of imports included, and merges *)
(* them in. The code recurses; here the stack of directories is a variable,*)
(* its last one is being worked on.                                        *)
(*                                                                         *)
(* A source names the same directory wherever it occurs.                   *)
(***************************************************************************)
EXTENDS Naturals, Sequences, SequencesExt

CONSTANTS
    Files,      \* the files of a directory, in the order of their names
    Main,       \* the directory of the command line, and its togomak.hcl
    MainFile,
    Sources,    \* the imports files may have: what each imports, in order
    Contents,   \* what else a file may hold
    MaxDepth    \* bound: how deep imports nest in an instance

Dir == DOMAIN Files
File == UNION {Range(Files[d]) : d \in Dir}

\* The kinds of blocks that Merge compares by id. Locals are expanded after
\* the merge, so it has none to compare.
Compared == {"stage", "data", "variable", "macro", "module"}
Kind == Compared \cup {"locals"}

\* The blocks that files may hold.
Definition == UNION {Range(c.defs) : c \in Contents}

ASSUME FilesAssumption ==
    /\ \A d \in Dir : Files[d] \in Seq(File)
    /\ Main \in Dir
    /\ MainFile \in Range(Files[Main])
    /\ Sources \subseteq [File -> Seq(Dir)]
    /\ \A c \in Contents :
         /\ c.broken \in BOOLEAN
         /\ c.version \in {1, 2}
         /\ c.defs \in Seq(Definition)
         /\ c.pre \in BOOLEAN /\ c.post \in BOOLEAN
    /\ \A x \in Definition : x.kind \in Kind
    /\ MaxDepth \in Nat \ {0}

VARIABLES
    holds,      \* what each file holds
    imports,    \* the imports of each file
    stack,      \* the directories being read, one frame for each
    fetched,    \* the sources that have been fetched to the disk
    failed,     \* whether a source had no value or could not be fetched
    outcome     \* of the whole

inputVars == <<holds, imports>>
vars == <<inputVars, stack, fetched, failed, outcome>>

-------------------------------------------------------------------------------
NoPipe == [version |-> 0, defs |-> <<>>, pre |-> FALSE, post |-> FALSE, imports |-> <<>>]

\* What DecodeBody makes of a file.
Decoded(f) ==
    [version |-> holds[f].version, defs |-> holds[f].defs, pre |-> holds[f].pre,
     post |-> holds[f].post, imports |-> imports[f]]

\* Definitions named X_Y are faults of X that the checks must notice.

\* CheckIfDistinct of the kinds that have ids.
Clash_Stages(p, q) ==
    \E i \in DOMAIN p.defs, j \in DOMAIN q.defs :
        p.defs[i] = q.defs[j] /\ p.defs[i].kind = "stage"
Clash(p, q) ==
    \E i \in DOMAIN p.defs, j \in DOMAIN q.defs :
        p.defs[i] = q.defs[j] /\ p.defs[i].kind \in Compared

\* Merge refuses the next pipeline of its list.
Refuses(p, q) ==
    \/ 0 \notin {p.version, q.version} /\ p.version # q.version
    \/ Clash(p, q)
    \/ p.pre /\ q.pre
    \/ p.post /\ q.post

Joined(p, q) ==
    [version |-> IF p.version = 0 THEN q.version ELSE p.version,
     defs |-> p.defs \o q.defs, imports |-> p.imports \o q.imports,
     pre |-> p.pre \/ q.pre, post |-> p.post \/ q.post]

\* Merge: one pipeline of several, or an error. (The behavior block of the
\* files is dropped, and no property is about it.)
Merge(pipes) ==
    LET merged[n \in 0..Len(pipes)] ==
          IF n = 0 THEN [ok |-> TRUE, pipe |-> NoPipe]
          ELSE [ok |-> merged[n - 1].ok /\ ~Refuses(merged[n - 1].pipe, pipes[n]),
                pipe |-> Joined(merged[n - 1].pipe, pipes[n])]
    IN merged[Len(pipes)]

-------------------------------------------------------------------------------
(* The stack *)

\* A directory that is being read: its files, then its imports.
Frame(d, errors) == [dir |-> d, at |-> "files", next |-> 1, pipes |-> <<>>, errors |-> errors]
Top == stack[Len(stack)]
Above == SubSeq(stack, 1, Len(stack) - 1)
Update(frame) == stack' = Append(Above, frame)

\* The directory is done with: the importing one takes the pipeline over, or
\* leaves it out and remembers that there were errors.
Taken_Over(frame, pipe, errors) ==
    [frame EXCEPT !.next = @ + 1, !.pipes = IF errors THEN @ ELSE Append(@, pipe)]
Taken(frame, pipe, errors) ==
    [frame EXCEPT !.next = @ + 1,
                  !.pipes = IF errors THEN @ ELSE Append(@, pipe),
                  !.errors = @ \/ errors]

Return(pipe, errors) ==
    IF Len(stack) = 1
      THEN /\ stack' = <<>>
           /\ outcome' = IF errors THEN [is |-> "refused", pipe |-> NoPipe]
                                   ELSE [is |-> "accepted", pipe |-> pipe]
      ELSE /\ stack' = Append(SubSeq(stack, 1, Len(stack) - 2),
                              Taken(stack[Len(stack) - 1], pipe, errors))
           /\ UNCHANGED outcome

-------------------------------------------------------------------------------
Init ==
    /\ holds \in [File -> Contents]
    /\ imports \in Sources
    /\ stack = <<>>
    /\ fetched = {}
    /\ failed = FALSE
    /\ outcome = [is |-> "none", pipe |-> NoPipe]

\* In version 1 togomak.hcl is all there is, otherwise its directory is read.
OnlyMain == ~holds[MainFile].broken /\ holds[MainFile].version = 1
FilesOf(d) == IF d = Main /\ OnlyMain THEN <<MainFile>> ELSE Files[d]

Read ==
    /\ stack = <<>>
    /\ outcome.is = "none"
    /\ stack' = <<Frame(Main, FALSE)>>
    /\ UNCHANGED <<inputVars, fetched, failed, outcome>>

\* ReadDirFromPath takes up a file; one that does not parse is left out.
ReadFile ==
    /\ stack # <<>>
    /\ Top.at = "files"
    /\ Top.next <= Len(FilesOf(Top.dir))
    /\ LET f == FilesOf(Top.dir)[Top.next]
       IN Update(Taken(Top, Decoded(f), holds[f].broken))
    /\ UNCHANGED <<inputVars, fetched, failed, outcome>>

\* The files are merged. With imports their sources are evaluated, and an error
\* there is the end of it.
MergeFiles ==
    /\ stack # <<>>
    /\ Top.at = "files"
    /\ Top.next > Len(FilesOf(Top.dir))
    /\ LET merged == Merge(Top.pipes)
           errors == Top.errors \/ ~merged.ok
       IN IF errors \/ merged.pipe.imports = <<>>
            THEN Return(merged.pipe, errors) /\ UNCHANGED failed
            ELSE \/ Return(merged.pipe, TRUE) /\ failed' = TRUE
                 \/ /\ Update([Top EXCEPT !.at = "imports", !.next = 1,
                                          !.pipes = <<merged.pipe>>])
                    /\ UNCHANGED <<failed, outcome>>
    /\ UNCHANGED <<inputVars, fetched>>

\* Import.Expand fetches a source, and reads its directory even when that
\* failed: an earlier import of the source may have left it on the disk, and
\* ReadDirFromPath panics when there is none.
Fetch ==
    /\ stack # <<>>
    /\ Top.at = "imports"
    /\ Top.next <= Len(Top.pipes[1].imports)
    /\ Len(stack) < MaxDepth
    /\ LET source == Top.pipes[1].imports[Top.next]
       IN \/ /\ stack' = Append(stack, Frame(source, FALSE))
             /\ fetched' = fetched \cup {source}
             /\ UNCHANGED <<failed, outcome>>
          \/ /\ failed' = TRUE
             /\ UNCHANGED fetched
             /\ IF source \in fetched
                  THEN stack' = Append(stack, Frame(source, TRUE)) /\ UNCHANGED outcome
                  ELSE /\ stack' = <<>>
                       /\ outcome' = [is |-> "panic", pipe |-> NoPipe]
    /\ UNCHANGED inputVars

\* ExpandImports merges the imported pipelines into the importing one.
MergeImports ==
    /\ stack # <<>>
    /\ Top.at = "imports"
    /\ Top.next > Len(Top.pipes[1].imports)
    /\ LET merged == Merge(Top.pipes)
       IN Return(merged.pipe, Top.errors \/ ~merged.ok)
    /\ UNCHANGED <<inputVars, fetched, failed>>

Finished == outcome.is # "none" /\ UNCHANGED vars

Next == Read \/ ReadFile \/ MergeFiles \/ Fetch \/ MergeImports \/ Finished

Spec == Init /\ [][Next]_vars

-------------------------------------------------------------------------------
\* The files a directory stands for, its imports included: each as often as it
\* is reached, an importing directory before what it imports.
Reached[depth \in 0..MaxDepth] == [d \in Dir |->
    LET own == FilesOf(d)
        sources == FlattenSeq([k \in DOMAIN own |-> imports[own[k]]])
    IN IF depth = 0 THEN <<>>
       ELSE own \o FlattenSeq([k \in DOMAIN sources |-> Reached[depth - 1][sources[k]]])]

\* What a configuration has to be, said of its files and of no order of work.
Sound(files) ==
    /\ \A k \in DOMAIN files : ~holds[files[k]].broken
    /\ \A k, n \in DOMAIN files : k # n =>
         LET f == holds[files[k]]
             g == holds[files[n]]
         IN /\ f.version = g.version
            /\ ~(f.pre /\ g.pre) /\ ~(f.post /\ g.post)
            /\ \A i \in DOMAIN f.defs, j \in DOMAIN g.defs :
                   f.defs[i].kind = "locals" \/ f.defs[i] # g.defs[j]

\* However the files are spread over directories and imports, a pipeline is
\* accepted just when no two of them contradict each other and nothing failed
\* on the way, and then it has all their blocks, in the order they were reached.
\* (ReadDirFromPath, Merge, ExpandImports and Expand together.)
ReadsAllOrRefuses ==
    outcome.is # "none" =>
        LET files == Reached[MaxDepth][Main]
        IN IF ~failed /\ Sound(files)
             THEN outcome.is = "accepted" /\
                  outcome.pipe.defs = FlattenSeq([k \in DOMAIN files |-> holds[files[k]].defs])
             ELSE outcome.is # "accepted"
===============================================================================
