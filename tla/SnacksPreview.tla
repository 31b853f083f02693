---------------------------- MODULE SnacksPreview ----------------------------
(* Document previews of the snacks-preview plugin: the registry of previews  *)
(* (reducer.rs over indexed_registry.rs), the cleanups it keeps for Lua      *)
(* (state.rs), and the calls and callbacks around them (preview.rs,          *)
(* bridge.rs).                                                               *)
(*                                                                           *)
(* A preview gives a buffer a name to be matched by, an autocommand group    *)
(* that notices its end, and, once the images of the document are found, a   *)
(* floating window whose cleanup is kept under an id.  Everything runs on    *)
(* the main thread; what the plugin schedules or asks for comes back later,  *)
(* under the token of a preview that may be gone.  Opening the floating      *)
(* window calls into Lua, which may call the plugin again before it returns. *)
EXTENDS Naturals, Sequences, FiniteSets

CONSTANTS PreviewBufs, PreviewWins,  \* buffers and windows of the editor
          NoPreview,                 \* no entry, no buffer, no window
          MaxTokens,                 \* bound: previews registered
          MaxMoves                   \* bound: buffers shown, hidden or wiped out

VARIABLES
  registry,   \* PreviewRegistry: entries by buffer, their two indexes, next_token
  resources,  \* buffer names, autocommand groups, open floats, registered cleanups
  shows,      \* per window, its buffer; NoPreview once the window is closed
  finds,      \* searches for images that snacks has not answered
  scheduled,  \* callbacks scheduled on the main loop
  opening,    \* the preview whose floating window is being opened
  moves       \* counter of the bound MaxMoves

vars == <<registry, resources, shows, finds, scheduled, opening, moves>>

Tokens == 1 .. MaxTokens

(* DocPreviewState; 0 stands for no cleanup, plan for restore_name_plan. *)
Entry(token, win, group, plan) ==
  [token |-> token, win |-> win, group |-> group, cleanup |-> 0, plan |-> plan]

EmptyRegistry ==
  [entries |-> [b \in PreviewBufs |-> NoPreview],
   byWin |-> [w \in PreviewWins |-> NoPreview],
   byToken |-> [t \in Tokens |-> NoPreview],
   next |-> 0]

Init ==
  /\ registry = EmptyRegistry
  /\ resources = [names |-> [b \in PreviewBufs |-> "own"], groups |-> {},
                  nextGroup |-> 0, floats |-> {}, cleanups |-> {}, nextCleanup |-> 0]
  /\ shows \in [PreviewWins -> PreviewBufs]
  /\ finds = {} /\ scheduled = <<>> /\ opening = NoPreview
  /\ moves = 0

-----------------------------------------------------------------------------
(* The registry. *)

Has(r, b) == b # NoPreview /\ r.entries[b] # NoPreview

IsTokenCurrent(b, token) ==
  Has(registry, b) /\ registry.entries[b].token = token

(* Fault: the index by window keeps the entry. *)
TakeWithoutWindow(r, b) ==
  IF ~Has(r, b) THEN r
  ELSE [r EXCEPT !.entries[b] = NoPreview,
                 !.byToken[r.entries[b].token] = NoPreview]

(* take_by_key: an entry leaves the map and both indexes. *)
Take(r, b) ==
  IF ~Has(r, b) THEN r
  ELSE [r EXCEPT !.entries[b] = NoPreview,
                 !.byWin[r.entries[b].win] = NoPreview,
                 !.byToken[r.entries[b].token] = NoPreview]

(* insert_replacing: the entries that hold the key or an index of the new    *)
(* one are evicted first.                                                    *)
Conflicts(r, b, e) == {b, r.byWin[e.win], r.byToken[e.token]} \ {NoPreview}

Insert(r, b, e) ==
  LET kept == [c \in PreviewBufs |->
                 IF c \in Conflicts(r, b, e) THEN NoPreview ELSE r.entries[c]]
  IN [r EXCEPT
        !.entries = [kept EXCEPT ![b] = e],
        !.byWin = [w \in PreviewWins |-> IF w = e.win THEN b
                     ELSE IF r.byWin[w] \in Conflicts(r, b, e) THEN NoPreview
                     ELSE r.byWin[w]],
        !.byToken = [t \in Tokens |-> IF t = e.token THEN b
                       ELSE IF r.byToken[t] \in Conflicts(r, b, e) THEN NoPreview
                       ELSE r.byToken[t]],
        !.next = e.token]

(* Effects: names to restore, groups to delete, cleanups to run.  They touch *)
(* different things, so their order is left out.                             *)
NoEffects == [names |-> {}, groups |-> {}, cleanups |-> {}]

Both(f, g) == [names |-> f.names \cup g.names, groups |-> f.groups \cup g.groups,
               cleanups |-> f.cleanups \cup g.cleanups]

(* Fault: the cleanup of a closed preview is not run. *)
CloseWithoutCleanup(r, b) ==
  IF ~Has(r, b) THEN NoEffects
  ELSE LET e == r.entries[b]
       IN [names |-> IF e.plan THEN {b} ELSE {}, groups |-> {e.group}, cleanups |-> {}]

CloseEffects(r, b) ==
  IF ~Has(r, b) THEN NoEffects
  ELSE LET e == r.entries[b]
       IN [names |-> IF e.plan THEN {b} ELSE {},
           groups |-> {e.group},
           cleanups |-> {e.cleanup} \ {0}]

(* Register for a key that has a preview: the buffer keeps its name and, if  *)
(* the group is the same, the group.                                         *)
ReplaceEffects(r, b, group) ==
  [CloseEffects(r, b) EXCEPT !.names = {}, !.groups = @ \ {group}]

RegisterEffects(r, b, w, group) ==
  Both(ReplaceEffects(r, b, group),
       CloseEffects(Take(r, b), Take(r, b).byWin[w]))

-----------------------------------------------------------------------------
(* Executing effects. *)

(* run_preview_cleanup: a cleanup is taken from the state before it is run,  *)
(* so it runs once.                                                          *)
RunCleanups(res, ids) ==
  [res EXCEPT !.cleanups = @ \ ids, !.floats = @ \ (ids \cap res.cleanups)]

(* A name is restored if the buffer is valid and still has the preview name. *)
Execute(res, effects) ==
  [RunCleanups(res, effects.cleanups) EXCEPT
     !.names = [b \in PreviewBufs |->
                  IF b \in effects.names /\ res.names[b] = "preview"
                  THEN "own" ELSE res.names[b]],
     !.groups = {g \in res.groups : g.id \notin effects.groups}]

(* Close a preview and execute what that takes. *)
ClosePreview(b) ==
  /\ registry' = Take(registry, b)
  /\ resources' = Execute(resources, CloseEffects(registry, b))

-----------------------------------------------------------------------------
(* Calls of Lua. *)

(* close_doc_preview and close_doc_preview_for_window: both find the entry,  *)
(* by its key or by the token of the window.                                 *)
CloseDocPreview(b) ==
  /\ Has(registry, b)
  /\ ClosePreview(b)
  /\ UNCHANGED <<shows, finds, scheduled, opening, moves>>

CloseDocPreviewForWindow(w) ==
  /\ registry.byWin[w] # NoPreview
  /\ ClosePreview(registry.byWin[w])
  /\ UNCHANGED <<shows, finds, scheduled, opening, moves>>

(* reset_state: every preview is closed, then every cleanup that is left. *)
ResetState ==
  LET live == {b \in PreviewBufs : Has(registry, b)}
      all == [names |-> {b \in live : registry.entries[b].plan},
              groups |-> {registry.entries[b].group : b \in live},
              cleanups |-> resources.cleanups]
  IN /\ registry' = [EmptyRegistry EXCEPT !.next = registry.next]
     /\ resources' = Execute(resources, all)
     /\ UNCHANGED <<shows, finds, scheduled, opening, moves>>

(* What attach_doc_preview leaves when it declines: the previews of the      *)
(* buffer and of the window are closed.                                      *)
Owners(b, w) == <<Take(Take(registry, b), Take(registry, b).byWin[w]),
                  Both(CloseEffects(registry, b),
                       CloseEffects(Take(registry, b), Take(registry, b).byWin[w]))>>

AttachDeclined(b, w) ==
  /\ registry' = Owners(b, w)[1]
  /\ resources' = Execute(resources, Owners(b, w)[2])
  /\ UNCHANGED <<shows, finds, scheduled, opening, moves>>

(* attach_doc_preview of a document in its window.  A buffer without a name  *)
(* gets one (plan) unless that fails; the group of the buffer is created and *)
(* the preview registered.  If the autocommands cannot be created or the     *)
(* search cannot be started, the preview is closed again.                    *)
Attached(b, w, plan) ==
  LET owners == Owners(b, w)
      res == Execute(resources, owners[2])
      group == res.nextGroup + 1
      token == registry.next + 1
  IN <<Insert(Take(Take(owners[1], b), Take(owners[1], b).byWin[w]),
              b, Entry(token, w, group, plan)),
       [Execute(res, RegisterEffects(owners[1], b, w, group)) EXCEPT
          !.names[b] = IF plan THEN "preview" ELSE @,
          !.nextGroup = group,
          !.groups = @ \cup {[id |-> group, buf |-> b, win |-> w, token |-> token]}]>>

AttachDocPreview(b, w) ==
  /\ registry.next < MaxTokens
  /\ resources.names[b] # "gone" /\ shows[w] = b
  /\ \E plan \in BOOLEAN :
       LET attached == Attached(b, w, plan)
       IN \/ /\ registry' = attached[1]
             /\ resources' = attached[2]
             /\ \/ finds' = finds \cup {[buf |-> b, token |-> registry'.next, win |-> w]}
                \/ UNCHANGED finds        \* snacks has no find_visible
          \/ /\ registry' = Take(attached[1], b)
             /\ resources' = Execute(attached[2], CloseEffects(attached[1], b))
             /\ UNCHANGED finds
  /\ UNCHANGED <<shows, scheduled, opening, moves>>

-----------------------------------------------------------------------------
(* Answers and callbacks. *)

(* on_doc_find: the search has been answered, so the name is not needed any  *)
(* longer; if an image was found, opening its window is scheduled.           *)
OnDocFind(find, found) ==
  /\ find \in finds
  /\ finds' = finds \ {find}
  /\ IF IsTokenCurrent(find.buf, find.token)
     THEN /\ registry' = [registry EXCEPT !.entries[find.buf].plan = FALSE]
          /\ resources' = Execute(resources, [NoEffects EXCEPT
               !.names = IF registry.entries[find.buf].plan THEN {find.buf} ELSE {}])
          /\ scheduled' = IF found
                          THEN Append(scheduled, [type |-> "open", find |-> find])
                          ELSE scheduled
     ELSE UNCHANGED <<registry, resources, scheduled>>
  /\ UNCHANGED <<shows, opening, moves>>

Due(type) == opening = NoPreview /\ scheduled # <<>> /\ Head(scheduled).type = type

(* run_scheduled_close_autocmd: the token finds its preview, if it is there. *)
RunScheduledClose ==
  /\ Due("close")
  /\ LET b == registry.byToken[Head(scheduled).token]
     IN IF b = NoPreview THEN UNCHANGED <<registry, resources>>
        ELSE ClosePreview(b)
  /\ scheduled' = Tail(scheduled)
  /\ UNCHANGED <<shows, finds, opening, moves>>

(* The scheduled part of on_doc_find, up to the call that opens the window. *)
RunScheduledOpen ==
  /\ Due("open")
  /\ LET find == Head(scheduled).find
     IN \/ /\ ~IsTokenCurrent(find.buf, find.token)
           /\ UNCHANGED <<registry, resources, opening>>
        \/ /\ IsTokenCurrent(find.buf, find.token)
           /\ shows[find.win] # find.buf
           /\ ClosePreview(find.buf)
           /\ UNCHANGED opening
        \/ /\ IsTokenCurrent(find.buf, find.token)
           /\ shows[find.win] = find.buf
           /\ opening' = find
           /\ UNCHANGED <<registry, resources>>
  /\ scheduled' = Tail(scheduled)
  /\ UNCHANGED <<shows, finds, moves>>

(* Fault: the preview is not looked up again after the window was opened. *)
CleanupOpenedUnchecked(find, id) ==
  /\ registry' = IF Has(registry, find.buf)
                 THEN [registry EXCEPT !.entries[find.buf].cleanup = id] ELSE registry
  /\ resources' = [resources EXCEPT !.nextCleanup = id, !.floats = @ \cup {id},
                                    !.cleanups = @ \cup {id}]

(* The window is open and its cleanup registered.  If the preview was closed *)
(* or replaced meanwhile the cleanup is run at once; a cleanup it already    *)
(* had is run as well.                                                       *)
CleanupOpened(find, id) ==
  LET opened == [resources EXCEPT !.nextCleanup = id, !.floats = @ \cup {id},
                                  !.cleanups = @ \cup {id}]
  IN IF IsTokenCurrent(find.buf, find.token)
     THEN /\ registry' = [registry EXCEPT !.entries[find.buf].cleanup = id]
          /\ resources' = RunCleanups(opened, {registry.entries[find.buf].cleanup} \ {0})
     ELSE /\ resources' = RunCleanups(opened, {id})
          /\ UNCHANGED registry

OpenReturns ==
  /\ opening # NoPreview
  /\ opening' = NoPreview
  /\ \/ CleanupOpened(opening, resources.nextCleanup + 1)
     \/ UNCHANGED <<registry, resources>>   \* the bridge refuses
  /\ UNCHANGED <<shows, finds, scheduled, moves>>

-----------------------------------------------------------------------------
(* The editor. *)

(* Fault: only closing the window ends a preview. *)
ScheduleForWindow(w, hidden) ==
  {g \in resources.groups : shows'[w] = NoPreview /\ g.win = w}

(* The autocommands of the groups: BufHidden or BufWipeout of the buffer,    *)
(* WinClosed of the window.                                                  *)
Noticed(w, hidden) ==
  {g \in resources.groups : g.buf \in hidden \/ (shows'[w] = NoPreview /\ g.win = w)}

(* run_close_autocmd: each autocommand schedules a close of its token; the   *)
(* hidden buffer and the closed window of one preview make one close here.   *)
ScheduleCloses(noticed) ==
  \E order \in [1 .. Cardinality(noticed) -> noticed] :
    /\ {order[i] : i \in DOMAIN order} = noticed
    /\ scheduled' = scheduled \o [i \in DOMAIN order |->
                                    [type |-> "close", token |-> order[i].token]]

(* A window closes, or shows another buffer; a buffer that is in no window   *)
(* any longer is hidden.                                                     *)
WindowShows(w, b) ==
  /\ moves < MaxMoves /\ moves' = moves + 1
  /\ shows[w] # NoPreview /\ b # shows[w]
  /\ b # NoPreview => resources.names[b] # "gone"
  /\ shows' = [shows EXCEPT ![w] = b]
  /\ LET hidden == {shows[w]} \ {shows'[v] : v \in PreviewWins}
     IN ScheduleCloses(Noticed(w, hidden))
  /\ UNCHANGED <<registry, resources, finds, opening>>

(* A hidden buffer is wiped out. *)
BufferIsWiped(b) ==
  /\ moves < MaxMoves /\ moves' = moves + 1
  /\ resources.names[b] # "gone"
  /\ \A w \in PreviewWins : shows[w] # b
  /\ resources' = [resources EXCEPT !.names[b] = "gone"]
  /\ ScheduleCloses({g \in resources.groups : g.buf = b})
  /\ UNCHANGED <<registry, shows, finds, opening>>

Next ==
  \/ \E b \in PreviewBufs : CloseDocPreview(b) \/ BufferIsWiped(b)
  \/ \E w \in PreviewWins : CloseDocPreviewForWindow(w)
  \/ ResetState
  \/ \E b \in PreviewBufs, w \in PreviewWins : AttachDocPreview(b, w) \/ AttachDeclined(b, w)
  \/ \E find \in finds : \E found \in BOOLEAN : OnDocFind(find, found)
  \/ RunScheduledClose
  \/ RunScheduledOpen
  \/ OpenReturns
  \/ \E w \in PreviewWins : \E b \in PreviewBufs \cup {NoPreview} : WindowShows(w, b)

Spec == Init /\ [][Next]_vars

-----------------------------------------------------------------------------
Live == {b \in PreviewBufs : Has(registry, b)}

(* The registry's own assertion: each index holds the entries and nothing    *)
(* else.                                                                     *)
IndexesAgree ==
  /\ \A w \in PreviewWins : registry.byWin[w] # NoPreview =>
       Has(registry, registry.byWin[w]) /\ registry.entries[registry.byWin[w]].win = w
  /\ \A t \in Tokens : registry.byToken[t] # NoPreview =>
       Has(registry, registry.byToken[t]) /\ registry.entries[registry.byToken[t]].token = t
  /\ \A b \in Live : /\ registry.byWin[registry.entries[b].win] = b
                     /\ registry.byToken[registry.entries[b].token] = b

(* Whatever is open or registered for a preview belongs to a live preview:   *)
(* floats and their cleanups, autocommand groups, names given to buffers.    *)
(* Nothing that a callback of an old preview opened is left behind.          *)
NothingIsLeaked ==
  /\ resources.floats = {registry.entries[b].cleanup : b \in Live} \ {0}
  /\ resources.cleanups = resources.floats
  /\ {g.id : g \in resources.groups} = {registry.entries[b].group : b \in Live}
  /\ \A b \in PreviewBufs :
       resources.names[b] = "preview" => b \in Live /\ registry.entries[b].plan

(* A preview whose window is closed or whose buffer is out of sight has a    *)
(* close on the way that carries its token.                                  *)
PreviewsEndWithTheirTarget ==
  \A b \in Live :
    \/ shows[registry.entries[b].win] # NoPreview /\ \E w \in PreviewWins : shows[w] = b
    \/ \E i \in DOMAIN scheduled :
         scheduled[i].type = "close" /\ scheduled[i].token = registry.entries[b].token
=============================================================================
