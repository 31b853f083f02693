----------------------------- MODULE ProjectRoot -----------------------------
(* Project roots of the project-root plugin: the walk up the directories     *)
(* (core.rs), the record each buffer keeps of its last walk (buffer.rs), and *)
(* the calls and autocommands that read and refresh it (plugin.rs), while    *)
(* files, buffer names and the configuration change underneath.              *)
(*                                                                           *)
(* A path stands for what get_path_from_buffer makes of a buffer's name; NoPath *)
(* is a buffer it skips (no name, a foreign scheme, a special buftype).      *)
(* Setting a buffer variable does not fail in this model.                    *)
EXTENDS Naturals, Sequences, FiniteSets

CONSTANTS RootBufs,        \* buffers
          Paths,           \* normalised paths
          Above,           \* per path, its directories from the nearest upwards
          IndicatorLists,  \* configurations: non-empty sequences of names; one
          DefaultList,     \*   of them default_root_indicators
          NoPath,          \* no path, no root, no record, no alternate buffer
          MaxEdits         \* bound: changes outside the plugin

VARIABLES
  indicators,  \* State::root_indicators
  didSetup,    \* State::did_setup: the autocommands are there
  paths,       \* per buffer, its path
  cache,       \* per buffer, b:project_root_cache, decoded
  markers,     \* <<directory, name>> of the files that exist
  focus,       \* current and alternate buffer, and the working directory's path
  answer,      \* what the last call of project_root returned
  edits        \* counter of the bound MaxEdits

vars == <<indicators, didSetup, paths, cache, markers, focus, answer, edits>>

Names == UNION {{list[i] : i \in DOMAIN list} : list \in IndicatorLists}
Dirs == UNION {{Above[p][i] : i \in DOMAIN Above[p]} : p \in Paths}
ElementsOf(s) == {s[i] : i \in DOMAIN s}

Init ==
  /\ indicators = DefaultList
  /\ didSetup = FALSE
  /\ paths \in [RootBufs -> Paths \cup {NoPath}]
  /\ cache = [b \in RootBufs |-> NoPath]
  /\ markers \in SUBSET (Dirs \X Names)
  /\ \E b \in RootBufs, p \in Paths : focus = [current |-> b, alternate |-> NoPath, cwd |-> p]
  /\ answer = NoPath
  /\ edits = 0

-----------------------------------------------------------------------------
(* The walk. *)

FirstWhere(s, Test(_)) ==
  LET S == {i \in DOMAIN s : Test(s[i])}
  IN IF S = {} THEN NoPath ELSE s[CHOOSE i \in S : \A j \in S : i <= j]

(* root_match_from_path_with: the nearest directory with an indicator, and   *)
(* the first indicator in it.                                                *)
RootMatch(list, path) ==
  LET Marked(d) == \E n \in ElementsOf(list) : <<d, n>> \in markers
      dir == FirstWhere(Above[path], Marked)
      There(n) == <<dir, n>> \in markers
  IN [root |-> dir,
      indicator |-> IF dir = NoPath THEN NoPath ELSE FirstWhere(list, There)]

(* RootCacheRecord: a Missing record has root NoPath.  A record encodes and  *)
(* decodes to itself; what set_buf_root writes without a key decodes to none.*)
Record(path, match) == [key |-> path, root |-> match.root, indicator |-> match.indicator]

(* Fault: the record is believed whatever path it was made for. *)
CachedForAnyPath(b) ==
  IF cache[b] = NoPath THEN NoPath
  ELSE IF cache[b].root # NoPath /\ <<cache[b].root, cache[b].indicator>> \in markers
       THEN cache[b].root ELSE NoPath

(* cached_root_by_key: a Missing record is never used, and a root only while *)
(* its indicator is still there.                                             *)
CachedRoot(b) ==
  IF cache[b] = NoPath THEN NoPath
  ELSE IF /\ cache[b].key = paths[b]
          /\ cache[b].root # NoPath
          /\ <<cache[b].root, cache[b].indicator>> \in markers
       THEN cache[b].root ELSE NoPath

(* refresh_root_for_buffer: the record that is left for a path. *)
Refreshed(list, path) == IF path = NoPath THEN NoPath ELSE Record(path, RootMatch(list, path))

(* cached_or_refresh_root. *)
RootOf(b) ==
  IF b = NoPath THEN NoPath
  ELSE IF paths[b] = NoPath THEN NoPath
  ELSE IF CachedRoot(b) # NoPath THEN CachedRoot(b) ELSE RootMatch(indicators, paths[b]).root

CacheAfterRootOf(b) ==
  IF paths[b] # NoPath /\ CachedRoot(b) # NoPath THEN cache[b] ELSE Refreshed(indicators, paths[b])

-----------------------------------------------------------------------------
(* Calls. *)

(* get_project_root: the current buffer, then the alternate one, then the    *)
(* working directory, which has no record.                                   *)
GetProjectRoot ==
  LET mine == RootOf(focus.current)
      theirs == RootOf(focus.alternate)
      asked == {focus.current} \cup (IF mine = NoPath THEN {focus.alternate} ELSE {})
  IN /\ cache' = [b \in RootBufs |-> IF b \in asked THEN CacheAfterRootOf(b) ELSE cache[b]]
     /\ answer' = [root |-> IF mine # NoPath THEN mine
                            ELSE IF theirs # NoPath THEN theirs
                            ELSE RootMatch(indicators, focus.cwd).root]
     /\ UNCHANGED <<indicators, didSetup, paths, markers, focus, edits>>

(* swap_root, and the callback of BufEnter and BufFilePost. *)
RefreshRoot(b) ==
  /\ cache' = [cache EXCEPT ![b] = Refreshed(indicators, paths[b])]
  /\ answer' = NoPath
  /\ UNCHANGED <<indicators, didSetup, paths, markers, focus, edits>>

(* Fault: the records of the old configuration are kept. *)
KeepCachedRoots(list) == cache

(* invalidate_cached_roots, when apply_config has changed the indicators.    *)
InvalidateCachedRoots(list) ==
  IF list = indicators THEN cache ELSE [b \in RootBufs |-> NoPath]

(* setup: the configuration, the autocommands once, and the current buffer.  *)
Setup(list) ==
  /\ indicators' = list
  /\ didSetup' = TRUE
  /\ cache' = [InvalidateCachedRoots(list) EXCEPT
                 ![focus.current] = Refreshed(list, paths[focus.current])]
  /\ answer' = NoPath
  /\ UNCHANGED <<paths, markers, focus, edits>>

-----------------------------------------------------------------------------
(* The editor and the file system. *)

Edit == edits < MaxEdits /\ edits' = edits + 1

(* Files come and go without any event. *)
MarkersChange(marker) ==
  /\ Edit
  /\ markers' = IF marker \in markers THEN markers \ {marker} ELSE markers \cup {marker}
  /\ answer' = NoPath
  /\ UNCHANGED <<indicators, didSetup, paths, cache, focus>>

(* A buffer gets another name; BufFilePost refreshes it once setup has run.  *)
RenameBuffer(b, path) ==
  /\ Edit
  /\ path # paths[b]
  /\ paths' = [paths EXCEPT ![b] = path]
  /\ cache' = IF didSetup THEN [cache EXCEPT ![b] = Refreshed(indicators, path)] ELSE cache
  /\ answer' = NoPath
  /\ UNCHANGED <<indicators, didSetup, markers, focus>>

(* Another buffer is entered, and refreshed once setup has run. *)
EnterBuffer(b) ==
  /\ Edit
  /\ b # focus.current
  /\ focus' = [focus EXCEPT !.current = b, !.alternate = focus.current]
  /\ cache' = IF didSetup THEN [cache EXCEPT ![b] = Refreshed(indicators, paths[b])] ELSE cache
  /\ answer' = NoPath
  /\ UNCHANGED <<indicators, didSetup, paths, markers>>

ChangeDirectory(path) ==
  /\ Edit
  /\ focus' = [focus EXCEPT !.cwd = path]
  /\ answer' = NoPath
  /\ UNCHANGED <<indicators, didSetup, paths, cache, markers>>

Next ==
  \/ GetProjectRoot
  \/ \E b \in RootBufs : RefreshRoot(b) \/ EnterBuffer(b)
  \/ \E list \in IndicatorLists : Setup(list)
  \/ \E marker \in Dirs \X Names : MarkersChange(marker)
  \/ \E b \in RootBufs, path \in Paths \cup {NoPath} : RenameBuffer(b, path)
  \/ \E path \in Paths : ChangeDirectory(path)

Spec == Init /\ [][Next]_vars

-----------------------------------------------------------------------------
RootsOf(path) == {d \in ElementsOf(Above[path]) :
                    \E n \in ElementsOf(indicators) : <<d, n>> \in markers}

(* The answer of project_root, cached or not: a directory above the current  *)
(* buffer's path that holds a configured indicator now; if there is none,    *)
(* one above the alternate buffer's path, then above the working directory;  *)
(* and none only if all of them have none.  (Not always the nearest: a       *)
(* record is kept while its own indicator exists.)                           *)
AnswersAreRoots ==
  answer # NoPath =>
    LET sources == [i \in 1 .. 3 |->
          CASE i = 1 -> paths[focus.current]
            [] i = 2 -> IF focus.alternate = NoPath THEN NoPath ELSE paths[focus.alternate]
            [] i = 3 -> focus.cwd]
        HasRoot(p) == IF p = NoPath THEN FALSE ELSE RootsOf(p) # {}
        source == FirstWhere(sources, HasRoot)
    IN IF source = NoPath THEN answer.root = NoPath ELSE answer.root \in RootsOf(source)
=============================================================================
