----------------------------- MODULE FileBrowser -----------------------------
(***************************************************************************)
(* The pod details page's "Files" tab (plugins/filesystem/src/pod): the    *)
(* tree it shows, the listings it has asked for, the operations it has     *)
(* started, and the file systems of the pod's containers behind the agent. *)
(*                                                                         *)
(* A path is the sequence of its names, so "/" is <<>>.  A file's data is  *)
(* a sequence of blocks.  Every call is answered in two steps: the helper  *)
(* acts or fails, and the answer reaches the tab, calls in any order.      *)
(* Banners (error, notice) and the selected row are left out.              *)
(* `late' is a history variable: the directories whose listing the tab is  *)
(* known not to bring up to date by itself (see ListingsHonest).           *)
(***************************************************************************)
EXTENDS Absent, AgentFs, FiniteSets, Bags

CONSTANTS
  Containers,    \* the pod's containers, in the order of its spec
  Preferred,     \* the default-container annotation, or None
  Home,          \* container -> its configured home directory
  InitFs,        \* container -> the file system it starts with
  Names,         \* names the user can type for a new folder
  Destinations,  \* paths the user can type for a move or an extraction
  Overwrites,    \* choices of "replace what is there" in the dialogs
  Blank,         \* an emptied destination field
  Local,         \* files on the user's machine: name -> data
  Picks,         \* the lists of them the user picks or drops
  Stem,          \* names looksLikeArchive() recognises -> without suffix
  ChunkDefault, ChunkServed,   \* uploadChunkBytes, built in and as served
  MaxSteps       \* bound: after that many operations the user is done

ASSUME BrowserAssumption ==
  /\ Containers \in Seq(Range(Containers)) /\ IsInjective(Containers) /\ Containers # <<>>
  /\ {ChunkDefault, ChunkServed, MaxSteps} \subseteq Nat \ {0}
  /\ None \notin Range(Containers) \cup {"ok", "failed"}
  /\ DOMAIN InitFs = Range(Containers)
  /\ \A c \in Range(Containers) : IsPath(Home[c]) /\ IsTree(InitFs[c])
  /\ \A d \in Destinations : IsPath(d)
  /\ \A n \in DOMAIN Local : Local[n] \in Seq(Range(Local[n]))
  /\ \A files \in Picks : files \in Seq(DOMAIN Local) /\ files # <<>>

VARIABLES
  fs,               \* the containers' file systems (the agent's side)
  chosen,           \* chosenContainer
  dirs,             \* path -> DirState, for every directory asked for
  expanded, menu, dialog, busy, transfer,
  listings,         \* bag of listDirectory calls in flight
  runs,             \* operations in flight: id -> run
  late,             \* history: directories known to be out of date
  steps             \* what the user has done so far

pane  == <<expanded, menu, dialog>>
flags == <<busy, transfer>>
browserVars == <<fs, chosen, dirs, pane, flags, listings, runs, late, steps>>

-----------------------------------------------------------------------------
(* Paths, the container browsed, the rows of the tree *)

parentPath(p) == IF p = <<>> THEN <<>> ELSE Front(p)

joinPath(p, name) == Append(p, name)

ancestorPaths(p) == {SubSeq(p, 1, i) : i \in 0..Len(p)}

(* The archive's name without its suffix, next to it. *)
defaultExtractDestination(p) == Append(Front(p), Stem[Last(p)])

container ==
  CASE chosen \in ToSet(Containers) -> chosen
    [] chosen \notin ToSet(Containers) /\ Preferred \in ToSet(Containers) -> Preferred
    [] OTHER -> Containers[1]

NoEntries == [n \in {} |-> "file"]

(* FileTree draws a row when every ancestor is expanded and lists the next *)
Rows ==
  LET Shown(p) == \A i \in 1..Len(p) :
        LET q == SubSeq(p, 1, i - 1) IN
          /\ q \in expanded /\ q \in DOMAIN dirs
          /\ p[i] \in DOMAIN dirs[q].entries
          /\ i < Len(p) => dirs[q].entries[p[i]] = "directory"
  IN {p \in {<<>>} \cup UNION {{Append(q, n) : n \in DOMAIN dirs[q].entries} : q \in DOMAIN dirs} :
        Shown(p)}

EntryType(p) == IF p = <<>> THEN "directory" ELSE dirs[Front(p)].entries[Last(p)]

isExpandable(p) == EntryType(p) = "directory"

-----------------------------------------------------------------------------
(* Listing directories *)

CallsFor(p, calls) == {l \in BagToSet(calls) : l.path = p}

(* loadDirectory up to its await, for every path of ps: the entries stay   *)
(* and the spinner shows.  A second call for a path may be answered before *)
(* the first, which the history variable notes.                            *)
loadDirectory(c, ps, old, oldLate) ==
  /\ dirs' = [p \in DOMAIN old \cup ps |->
                CASE p \in ps \cap DOMAIN old -> [old[p] EXCEPT !.loading = TRUE]
                  [] p \in ps \ DOMAIN old -> [entries |-> NoEntries, loading |-> TRUE, of |-> None]
                  [] OTHER -> old[p]]
  /\ listings' = listings (+) SetToBag({[target |-> c, path |-> p, answer |-> None] : p \in ps})
  /\ late' = (oldLate \ ps) \cup {p \in ps : CallsFor(p, listings) # {}}

(* The agent reads the directory, or the call fails. *)
AgentLists(l) ==
  /\ l.answer = None
  /\ \E a \in {[ok |-> FALSE, entries |-> NoEntries]} \cup
              (IF IsDir(fs[l.target], l.path)
                 THEN {[ok |-> TRUE, entries |-> List(fs[l.target], l.path)]} ELSE {}) :
       listings' = (listings (-) SetToBag({l})) (+) SetToBag({[l EXCEPT !.answer = a]})
  /\ UNCHANGED <<fs, chosen, dirs, pane, flags,  runs, late, steps>>

(* The answer is stored under its path, whatever container is browsed now; *)
(* a failure shows its message instead of entries.  `of' is a history      *)
(* field, the container the entries were read from.                        *)
ListingArrives(l) ==
  /\ l.answer # None
  /\ listings' = listings (-) SetToBag({l})
  /\ dirs' = Put(dirs, l.path, [entries |-> l.answer.entries, loading |-> FALSE,
                                of |-> IF l.answer.ok THEN l.target ELSE None])
  /\ UNCHANGED <<fs, chosen, pane, flags,  runs, late, steps>>

(* refresh: only directories that have been opened are read again. *)
refresh(c, ps) == loadDirectory(c, ps \cap DOMAIN dirs, dirs, late)

(* The effect of a container switch, and of opening the tab.  Answers that *)
(* are still to come are stored in the new tree all the same.              *)
openHome(c) ==
  LET toOpen == ancestorPaths(Home[c]) IN
    /\ loadDirectory(c, toOpen, [p \in {} |-> 0], {l.path : l \in BagToSet(listings)})
    /\ expanded' = toOpen

-----------------------------------------------------------------------------
(* run(): an operation with its busy marker, banner and refresh.  A run    *)
(* keeps the target it was started with.                                   *)

NewRun(op, busyPath, refreshPaths) ==
  [op |-> op, path |-> busyPath, refresh |-> refreshPaths, target |-> container,
   answer |-> None,
   alone |-> \A i \in DOMAIN runs : runs[i].target # container]

run(op, busyPath, refreshPaths) ==
  /\ steps' = steps + 1
  /\ runs' = [i \in DOMAIN runs \cup {steps'} |->
                IF i = steps' THEN NewRun(op, busyPath, refreshPaths)
                ELSE [runs[i] EXCEPT !.alone = @ /\ runs[i].target # container]]
  /\ busy' = busy \cup {busyPath}

(* The helper unpacks next to the archive when no destination is named. *)
ExtractsTo(r) ==
  IF r.op.destination = Blank THEN defaultExtractDestination(r.path) ELSE r.op.destination

(* The call a run waits for, as the helper carries it out. *)
Outcome(r) ==
  LET f == fs[r.target] op == r.op IN
  CASE op.kind = "upload" ->
         LET data == Local[op.files[op.next]] IN
         Upload(f, joinPath(r.path, op.files[op.next]), op.offset,
                SubSeq(data, op.offset + 1,
                       IF op.offset + op.chunk < Len(data) THEN op.offset + op.chunk ELSE Len(data)))
    [] op.kind = "move"    -> Rename(f, r.path, op.destination, op.overwrite)
    [] op.kind = "mkdir"   -> MkdirAll(f, op.destination)
    [] op.kind = "delete"  -> Delete(f, r.path, op.recursive)
    [] op.kind = "extract" -> Extract(f, r.path, ExtractsTo(r), op.overwrite, "member", <<"m">>)
    [] op.kind \in {"archive", "info"}  -> IF r.path \in DOMAIN f THEN Done(f) ELSE Refused(f)
    [] op.kind \in {"view", "download"} -> IF IsFile(f, r.path) THEN Done(f) ELSE Refused(f)

(* Opened directories that an operation removes, replaces or unpacks into, *)
(* and those on the way to a parent it has to make first: nothing tells    *)
(* the tab that the listing it holds for them is stale.                    *)
Displaced(r) ==
  LET op == r.op
      gone == CASE op.kind = "move" -> {r.path, op.destination}
                [] op.kind = "delete" -> {r.path}
                [] op.kind = "extract" -> {ExtractsTo(r)}
                [] OTHER -> {}
      made == CASE op.kind = "mkdir" -> {op.destination}
                [] op.kind = "extract" -> {ExtractsTo(r)}
                [] OTHER -> {}
  IN {p \in DOMAIN dirs : \/ \E q \in gone : IsPrefix(q, p)
                         \/ \E q \in made : IsPrefix(p, q) /\ ~IsDir(fs[r.target], parentPath(q))}

(* The helper acts, or the call never reaches it; the answer may be lost.  *)
AgentActs(i) ==
  LET r == runs[i] o == Outcome(r) IN
  /\ r.answer = None
  /\ \/ /\ runs' = [runs EXCEPT ![i].answer = "failed"]
        /\ UNCHANGED <<fs, late>>
     \/ /\ fs' = [fs EXCEPT ![r.target] = o.fs]
        /\ \E a \in {"failed"} \cup (IF o.ok THEN {"ok"} ELSE {}) :
             runs' = [runs EXCEPT ![i].answer = a]
        /\ late' = IF r.target = container /\ o.fs # fs[r.target]
                     THEN late \cup Displaced(r) ELSE late
  /\ UNCHANGED <<chosen, dirs, pane, flags, listings, steps>>

\* Mutant of UploadStep: a rest of one block counts as uploaded.
UploadStepShort(op) ==
  LET last == op.offset + op.chunk + 1 >= Len(Local[op.files[op.next]]) IN
  IF last THEN [op EXCEPT !.next = @ + 1, !.offset = 0]
          ELSE [op EXCEPT !.offset = @ + op.chunk]

(* uploadFile: one call per chunk, at least one per file, files in turn.   *)
UploadStep(op) ==
  LET last == op.offset + op.chunk >= Len(Local[op.files[op.next]]) IN
  IF last THEN [op EXCEPT !.next = @ + 1, !.offset = 0]
          ELSE [op EXCEPT !.offset = @ + op.chunk]

MoreToUpload(r) == r.op.kind = "upload" /\ UploadStep(r.op).next <= Len(r.op.files)

UploadContinues(i) ==
  /\ runs[i].answer = "ok" /\ MoreToUpload(runs[i])
  /\ runs' = [runs EXCEPT ![i].op = UploadStep(@), ![i].answer = None]
  /\ transfer' = "upload"
  /\ UNCHANGED <<fs, chosen, dirs, pane, busy,  listings, late, steps>>

(* A stream's data arrives: readFileBytes and downloadArchive report it.   *)
StreamProgress(i) ==
  /\ runs[i].op.kind \in {"view", "download", "archive"}
  /\ runs[i].answer = "ok" /\ transfer' = runs[i].op.kind
  /\ UNCHANGED <<fs, chosen, dirs, pane, busy,  listings, runs, late, steps>>

\* Mutant of settle: the progress bar stays.
settleKeepsBar(i) ==
  /\ runs' = [j \in DOMAIN runs \ {i} |-> runs[j]]
  /\ busy' = busy \ {runs[i].path}
  /\ transfer' = transfer

(* The finally block *)
settle(i) ==
  /\ runs' = [j \in DOMAIN runs \ {i} |-> runs[j]]
  /\ busy' = busy \ {runs[i].path}
  /\ transfer' = None

RunEnds(i) ==
  LET r == runs[i] IN
  /\ r.answer = "ok" /\ ~MoreToUpload(r)
  /\ settle(i)
  /\ dialog' = IF r.op.kind \in {"view", "info"} THEN [kind |-> r.op.kind, path |-> r.path]
                                                 ELSE dialog
  /\ refresh(r.target, r.refresh)
  /\ UNCHANGED <<fs, chosen, expanded, menu,  steps>>

RunFails(i) ==
  /\ runs[i].answer = "failed"
  /\ settle(i)
  /\ late' = IF runs[i].target = container
               THEN late \cup {p \in DOMAIN dirs : \/ CallsFor(p, listings) # {}
                                                 \/ dirs[p].entries # List(fs[container], p)}
               ELSE late
  /\ UNCHANGED <<fs, chosen, dirs, pane,  listings, steps>>

-----------------------------------------------------------------------------
(* What the user can do.  A modal dialog hides the page; a pointer press   *)
(* outside the context menu closes the menu first.                         *)

CanStart == steps < MaxSteps
OnPage == CanStart /\ dialog = None /\ menu = None

SelectContainer(c) ==
  /\ OnPage /\ Len(Containers) > 1 /\ c # container
  /\ chosen' = c /\ steps' = steps + 1
  /\ openHome(c)
  /\ UNCHANGED <<fs, menu, dialog, busy, transfer,  runs>>

(* A directory opens or closes; its listing is asked for only when there   *)
(* is none yet.                                                            *)
onToggle(p) ==
  /\ expanded' = IF p \in expanded THEN expanded \ {p} ELSE expanded \cup {p}
  /\ IF p \notin expanded /\ p \notin DOMAIN dirs
       THEN loadDirectory(container, {p}, dirs, late)
       ELSE UNCHANGED <<dirs, listings, late>>

(* Clicking a file's row only selects it. *)
RowClicked(p) ==
  /\ OnPage /\ p \in Rows /\ isExpandable(p)
  /\ onToggle(p)
  /\ UNCHANGED <<fs, chosen, menu, dialog, flags,  runs, steps>>

openContextMenu(p) ==
  /\ OnPage /\ p \in Rows
  /\ menu' = [path |-> p, type |-> EntryType(p)]
  /\ UNCHANGED <<fs, chosen, dirs, expanded, dialog, flags, listings, runs, late, steps>>

closeContextMenu ==
  /\ menu # None /\ menu' = None
  /\ UNCHANGED <<fs, chosen, dirs, expanded, dialog, flags, listings, runs, late, steps>>

(* Which actions the menu offers for the entry it was opened on *)
Offered(m) ==
  (IF m.type = "file" THEN {"view", "download"} ELSE {"archive", "archiveAs", "upload", "newFolder"})
  \cup (IF m.type = "file" /\ Last(m.path) \in DOMAIN Stem THEN {"extract"} ELSE {})
  \cup (IF m.path # <<>> THEN {"info", "move", "delete"} ELSE {})
  \cup {"refresh"}

startArchive(p) == run([kind |-> "archive"], p, {})

(* Items that start an operation at once *)
MenuRuns(kind) ==
  /\ menu # None /\ kind \in Offered(menu) \cap {"view", "download", "archive", "info"}
  /\ IF kind = "archive" THEN startArchive(menu.path) ELSE run([kind |-> kind], menu.path, {})
  /\ menu' = None
  /\ UNCHANGED <<fs, chosen, dirs, expanded, dialog, transfer,  listings, late>>

(* Items that ask first *)
MenuAsks(kind) ==
  /\ menu # None
  /\ kind \in Offered(menu) \cap {"archiveAs", "newFolder", "extract", "move", "delete"}
  /\ dialog' = [kind |-> kind, path |-> menu.path, type |-> menu.type]
  /\ menu' = None
  /\ UNCHANGED <<fs, chosen, dirs, expanded, flags, listings, runs, late, steps>>

MenuRefresh ==
  /\ menu # None
  /\ refresh(container, {IF menu.type = "directory" THEN menu.path ELSE parentPath(menu.path)})
  /\ menu' = None /\ steps' = steps + 1
  /\ UNCHANGED <<fs, chosen, expanded, dialog, flags,  runs>>

(* The toolbar's Refresh reads every opened directory again. *)
RefreshAll ==
  /\ OnPage
  /\ refresh(container, DOMAIN dirs)
  /\ steps' = steps + 1
  /\ UNCHANGED <<fs, chosen, pane, flags,  runs>>

(* "Upload" in the menu or the toolbar opens the file chooser for the      *)
(* menu's directory, or for the row selected if it has been opened, else   *)
(* for "/".  Any row can be selected, so the model keeps no selection.     *)
ChooseUpload ==
  /\ CanStart /\ dialog = None
  /\ \E p \in (IF menu = None THEN DOMAIN dirs \cup {<<>>}
               ELSE IF "upload" \in Offered(menu) THEN {menu.path} ELSE {}) :
       dialog' = [kind |-> "chooser", path |-> p]
  /\ menu' = None
  /\ UNCHANGED <<fs, chosen, dirs, expanded, flags, listings, runs, late, steps>>

(* The chunk size is the built-in one until the configuration has arrived, *)
(* and for good when it could not be fetched.                              *)
doUpload(directory, files) ==
  \E chunk \in {ChunkDefault, ChunkServed} :
    run([kind |-> "upload", files |-> files, next |-> 1, offset |-> 0, chunk |-> chunk],
        directory, {directory})

FilesChosen(files) ==
  /\ dialog # None /\ dialog.kind = "chooser"
  /\ doUpload(dialog.path, files)
  /\ dialog' = None
  /\ UNCHANGED <<fs, chosen, dirs, expanded, menu, transfer,  listings, late>>

(* Files or an entry dropped on a row: a file's row stands for its parent. *)
DropTarget(p) == IF isExpandable(p) THEN p ELSE parentPath(p)

DropFiles(p, files) ==
  /\ OnPage /\ p \in Rows
  /\ doUpload(DropTarget(p), files)
  /\ UNCHANGED <<fs, chosen, dirs, pane, transfer,  listings, late>>

\* Mutant of doMove: only the directory the entry leaves is read again.
doMoveOneSide(source, dest, overwrite) ==
  run([kind |-> "move", destination |-> dest, overwrite |-> overwrite],
      source, {parentPath(source)})

doMove(source, dest, overwrite) ==
  run([kind |-> "move", destination |-> dest, overwrite |-> overwrite],
      source, {parentPath(source), parentPath(dest)})

onDropMove(source, p) ==
  /\ OnPage /\ source \in Rows \ {<<>>} /\ p \in Rows
  /\ DropTarget(p) # parentPath(source)
  /\ doMove(source, joinPath(DropTarget(p), Last(source)), FALSE)
  /\ UNCHANGED <<fs, chosen, dirs, pane, transfer,  listings, late>>

(* Confirming a dialog closes it and starts its operation. *)
Confirmed(kind) ==
  /\ dialog # None /\ dialog.kind = kind /\ dialog' = None
  /\ UNCHANGED <<fs, chosen, dirs, expanded, menu, transfer, listings, late>>

ConfirmMove ==
  /\ Confirmed("move")
  /\ \E d \in Destinations \ {dialog.path}, o \in Overwrites : doMove(dialog.path, d, o)

ConfirmArchive ==
  /\ Confirmed("archiveAs")
  /\ startArchive(dialog.path)

(* The form can be submitted with an emptied field, unlike the button. *)
ConfirmExtract ==
  /\ Confirmed("extract")
  /\ \E d \in Destinations \cup {Blank, defaultExtractDestination(dialog.path)}, o \in Overwrites :
       run([kind |-> "extract", destination |-> d, overwrite |-> o], dialog.path,
           {IF d = Blank THEN <<>> ELSE parentPath(d), parentPath(dialog.path)})

(* A name that is blank or holds a slash is not let through. *)
ConfirmNewFolder ==
  /\ Confirmed("newFolder")
  /\ \E n \in Names : run([kind |-> "mkdir", destination |-> joinPath(dialog.path, n)],
                          dialog.path, {dialog.path})

(* The recursive box is offered for directories only. *)
ConfirmDelete ==
  /\ Confirmed("delete")
  /\ \E rec \in (IF dialog.type = "directory" THEN BOOLEAN ELSE {FALSE}) :
       run([kind |-> "delete", recursive |-> rec], dialog.path, {parentPath(dialog.path)})

CloseDialog ==
  /\ dialog # None /\ dialog' = None
  /\ UNCHANGED <<fs, chosen, dirs, expanded, menu, flags, listings, runs, late, steps>>

-----------------------------------------------------------------------------
(* The tab opens on the container's home directory. *)
BrowserInit ==
  LET c == IF Preferred \in ToSet(Containers) THEN Preferred ELSE Containers[1]
      toOpen == ancestorPaths(Home[c]) IN
  /\ fs = InitFs /\ chosen = None
  /\ dirs = [p \in toOpen |-> [entries |-> NoEntries, loading |-> TRUE, of |-> None]]
  /\ listings = SetToBag({[target |-> c, path |-> p, answer |-> None] : p \in toOpen})
  /\ expanded = toOpen
  /\ menu = None /\ dialog = None
  /\ busy = {} /\ transfer = None
  /\ runs = [i \in {} |-> None] /\ late = {} /\ steps = 0

(* What happens without the user *)
Background ==
  \/ \E l \in BagToSet(listings) : AgentLists(l) \/ ListingArrives(l)
  \/ \E i \in DOMAIN runs : AgentActs(i) \/ UploadContinues(i) \/ RunEnds(i) \/ RunFails(i)

User ==
  \/ \E c \in ToSet(Containers) : SelectContainer(c)
  \/ \E p \in Rows : \/ RowClicked(p) \/ openContextMenu(p)
                      \/ \E s \in Rows : onDropMove(s, p)
                      \/ \E files \in Picks : DropFiles(p, files)
  \/ \E files \in Picks : FilesChosen(files)
  \/ \E k \in {"view", "download", "archive", "info"} : MenuRuns(k)
  \/ \E k \in {"archiveAs", "newFolder", "extract", "move", "delete"} : MenuAsks(k)
  \/ closeContextMenu \/ MenuRefresh \/ RefreshAll \/ ChooseUpload
  \/ ConfirmMove \/ ConfirmArchive \/ ConfirmExtract \/ ConfirmNewFolder \/ ConfirmDelete
  \/ CloseDialog

BrowserNext == Background \/ User \/ \E i \in DOMAIN runs : StreamProgress(i)

BrowserSpec == BrowserInit /\ [][BrowserNext]_browserVars

-----------------------------------------------------------------------------
(* Properties *)

(* Nothing spins for ever: a busy row or a progress bar belongs to an      *)
(* operation still in flight, a loading directory to a call in flight.     *)
(* Every way out of loadDirectory and run() takes its own marker down, in  *)
(* whatever order the answers come, several operations on one row and a    *)
(* container switch included.                                              *)
MarkersBacked ==
  /\ busy \subseteq {runs[i].path : i \in DOMAIN runs}
  /\ transfer # None => DOMAIN runs # {}
  /\ \A p \in DOMAIN dirs : dirs[p].loading => CallsFor(p, listings) # {}

(* With nothing in flight for it, an open directory shows what the         *)
(* container holds, whatever operations were started from the tab since:   *)
(* every operation that succeeds has the directories it changed read       *)
(* again.  Excepted are listings answered out of order, listings of        *)
(* another container, operations that failed, and directories that were    *)
(* replaced or unpacked into (the history variable `late').                *)
ListingsHonest ==
  \A p \in Rows \cap expanded \cap DOMAIN dirs :
    (/\ isExpandable(p) /\ dirs[p].of = container /\ p \notin late
     /\ CallsFor(p, listings) = {}
     /\ \A i \in DOMAIN runs : runs[i].target # container)
      => dirs[p].entries = List(fs[container], p)

(* An upload that reports success has left every file whole, byte for      *)
(* byte, in the container it was started for: also over a longer file, for *)
(* an empty one, after an upload that failed half way, and whatever the    *)
(* user browsed meanwhile, as long as no other operation changed that      *)
(* container at the same time.                                             *)
UploadsWhole ==
  [][\A i \in DOMAIN runs \ DOMAIN runs' :
       LET r == runs[i] IN
       (r.op.kind = "upload" /\ r.answer = "ok" /\ r.alone)
         => \A k \in DOMAIN r.op.files :
              LET p == joinPath(r.path, r.op.files[k]) IN
                /\ p \in DOMAIN fs[r.target]
                /\ fs[r.target][p] = File(Local[r.op.files[k]])]_browserVars

(* "A container switch invalidates every path in the tree: the same path   *)
(* in another container is a different file": no open directory is left    *)
(* showing what was read from another container.                           *)
TreeOfContainer ==
  \A p \in Rows \cap expanded \cap DOMAIN dirs :
    CallsFor(p, listings) = {} => dirs[p].of \in {None, container}

\* The tree shows what is in the container and nothing that is still pending
\* once nothing is.
TreeHonest == MarkersBacked /\ ListingsHonest
=============================================================================
