------------------------------- MODULE PanelLayout -------------------------------
(***************************************************************************)
(* The sizes of the panels of the workspace: the coordinator createPanelLayout         *)
(* (use-panel-layout.svelte.ts) with its geometry (panel-layout.ts) and preferences     *)
(* (layout-preferences.ts), and the dividers that drive it (resize-handle.ts).          *)
(*                                                                         *)
(* Each divider has a pointer transaction of its own, the coordinator has one for all.   *)
(* Sizes are in pixels.                                                          *)
(***************************************************************************)
EXTENDS Integers, FiniteSets, FiniteSetsExt, TLC

CONSTANTS
    Measurements,  \* bound: the metrics that may be measured
    Saved,         \* bound: what an earlier visit may have left in storage
    Coordinates,   \* bound: where the pointers may be
    MaxEvents,     \* bound: events
    Null

Panels == {"sources", "query", "inspection", "values"}
isVertical(panel) == panel \in {"query", "inspection"}
emptyPreferences == [p \in Panels |-> Null]

VARIABLES
    preferences, metrics, drag, cancelEpoch, compact,  \* of the coordinator
    storage,   \* what is stored: [version, sizes], [height] or Null
    handles,   \* the transaction of each divider, Null without one
    writeLost, \* history: a write to storage failed
    events

layoutVars == <<preferences, metrics, drag, cancelEpoch, compact, storage, handles, writeLost, events>>

-----------------------------------------------------------------------------
(* Geometry.                                                               *)

Bounds(min, max) == [min |-> min, max |-> max]
clamp(value, bounds) == Max({bounds.min, Min({bounds.max, value})})

defaultSizes(m) ==
    [sources |-> IF m.viewportWidth >= 1280 THEN 224 ELSE 208,
     query |-> IF m.viewportWidth < 700 \/ m.viewportHeight < 760 THEN 80 ELSE 116,
     inspection |-> 248, values |-> 256]

compactForWidth(m, wasCompact) ==
    m.viewportWidth < 1280 \/ m.dockWidth < 900 \/ (m.dockWidth < 924 /\ wasCompact)

chromeHeightOf(m) == m.chrome + m.gutter + IF m.dockCollapsed THEN 0 ELSE m.gutter
bodyMinOf(m) == IF m.bytesVisible THEN Max({112, m.hexChrome + 72}) ELSE 112

stripOf(m)   == Max({40, m.strip})
minDockOf(m) == IF m.dockCollapsed THEN stripOf(m) ELSE stripOf(m) + m.tabs + bodyMinOf(m)

\* From min to what the results leave of a room, or min.
From(min, room) == Bounds(min, Max({min, room - 128}))

VerticalFit(budget, minDock, q, d) ==
    [sizes   |-> [query |-> q, inspection |-> d],
     bounds  |-> [query |-> From(80, budget - d), inspection |-> From(minDock, budget - q)],
     results |-> Max({128, budget - q - d})]

WithQuery(m, budget, minDock, q, dock) ==
    VerticalFit(budget, minDock, q,
                IF m.dockCollapsed THEN stripOf(m) ELSE clamp(dock, From(minDock, budget - q)))

WithBudget(m, budget, minDock, query, dock) ==
    WithQuery(m, budget, minDock, clamp(query, From(80, budget - minDock)), dock)

\* The dock gives way first, then the query editor, then there is an overflow.
fitVertical(m, query, dock) ==
    WithBudget(m, m.workspaceHeight - chromeHeightOf(m), minDockOf(m), query, dock)

HorizontalFit(bounds, sources, values) ==
    [sizes |-> [sources |-> clamp(sources, bounds.sources), values |-> clamp(values, bounds.values)],
     bounds |-> bounds]

fitHorizontal(m, sources, values) ==
    HorizontalFit([sources |-> Bounds(192, Max({192, Min({420, m.shellWidth - m.gutter - 640})})),
                   values  |-> Bounds(200, Max({200, Min({480, m.dockWidth - m.gutter - 360})}))],
                  sources, values)

\* The size a panel asks for, with a drag of its kind or Null.  A dragged size is kept within the
\* bounds that its frozen neighbour leaves, if it is a height.
Asked(p, d, m, panel) ==
    IF d = Null THEN IF p[panel] = Null THEN defaultSizes(m)[panel] ELSE p[panel]
    ELSE IF d.panel # panel \/ d.value = Null THEN d.sizes[panel]
    ELSE IF isVertical(panel)
         THEN clamp(d.value, fitVertical(m, d.sizes.query, d.sizes.inspection).bounds[panel])
         ELSE d.value

\* The drag, if it is one of the panels given.
DragAmong(d, panels) == IF d = Null THEN Null ELSE IF d.panel \in panels THEN d ELSE Null

Vertical(p, d, m)   == fitVertical(m, Asked(p, d, m, "query"), Asked(p, d, m, "inspection"))
Horizontal(p, d, m) == fitHorizontal(m, Asked(p, d, m, "sources"), Asked(p, d, m, "values"))

Combined(vertical, horizontal) ==
    [sizes |-> vertical.sizes @@ horizontal.sizes, bounds |-> vertical.bounds @@ horizontal.bounds,
     results |-> vertical.results]

LayoutOf(p, d, m) == Combined(Vertical(p, DragAmong(d, {"query", "inspection"}), m),
                              Horizontal(p, DragAmong(d, {"sources", "values"}), m))

layout == LayoutOf(preferences, drag, metrics)

-----------------------------------------------------------------------------
(* Preferences.                                                            *)

validField(value) == IF value # Null /\ value > 0 /\ value <= 10000 THEN value ELSE Null

readLayoutPreferences(stored) ==
    IF stored = Null THEN emptyPreferences
    ELSE IF stored.version = "v1" THEN [p \in Panels |-> validField(stored.sizes[p])]
    ELSE IF stored.version = "height" THEN [emptyPreferences EXCEPT !.inspection = validField(stored.height)]
    ELSE emptyPreferences

Init ==
    /\ storage \in Saved /\ preferences = readLayoutPreferences(storage)
    /\ metrics \in Measurements /\ compact = compactForWidth(metrics, TRUE)
    /\ drag = Null /\ cancelEpoch = 0 /\ handles = [p \in Panels |-> Null]
    /\ writeLost = FALSE /\ events = 0

-----------------------------------------------------------------------------
(* The coordinator, as what its calls leave: c is [preferences, drag, cancelled, save].*)
(* cancelled is set when the dividers are told by cancelEpoch.                        *)

Now == [preferences |-> preferences, drag |-> drag, cancelled |-> FALSE, save |-> FALSE]

abandon(c) == IF c.drag = Null THEN c ELSE [c EXCEPT !.drag = Null, !.preferences = c.drag.preferences]
cancel(c)  == IF c.drag = Null THEN c ELSE [abandon(c) EXCEPT !.cancelled = TRUE]

begin(c, panel) ==
    LET free == abandon(c) IN
    [free EXCEPT !.drag = [panel |-> panel, preferences |-> free.preferences,
                           sizes |-> LayoutOf(free.preferences, Null, metrics).sizes, value |-> Null]]

preview(c, panel, value) ==
    IF c.drag = Null THEN c ELSE IF c.drag.panel # panel THEN c ELSE [c EXCEPT !.drag.value = value]

save(c, sizes) == [c EXCEPT !.preferences = sizes @@ @, !.save = TRUE]

\* What is stored for a panel.  The strip of a collapsed dock is no size the user chose.
Chosen(panel, sizes) ==
    IF ~isVertical(panel) THEN panel :> sizes[panel]
    ELSE IF metrics.dockCollapsed THEN "query" :> sizes.query
    ELSE [query |-> sizes.query, inspection |-> sizes.inspection]

commit(c, panel, value) ==
    IF c.drag = Null THEN c ELSE IF c.drag.panel # panel THEN c
    ELSE save([c EXCEPT !.drag = Null],
              Chosen(panel, LayoutOf(c.preferences, preview(c, panel, value).drag, metrics).sizes))

\* A default that fits is stored as no preference.
OrDefault(sizes, panel) ==
    IF sizes[panel] = defaultSizes(metrics)[panel] THEN [sizes EXCEPT ![panel] = Null] ELSE sizes

\* The sizes with the panel's default among them, fitted again.
Refitted(panel, sizes) ==
    OrDefault(IF isVertical(panel) THEN fitVertical(metrics, sizes.query, sizes.inspection).sizes
              ELSE fitHorizontal(metrics, sizes.sources, sizes.values).sizes, panel)

ResetFrom(c, panel) ==
    save(c, Chosen(panel, Refitted(panel, [LayoutOf(c.preferences, c.drag, metrics).sizes
                                             EXCEPT ![panel] = defaultSizes(metrics)[panel]])))

reset(before, panel) == ResetFrom(cancel(before), panel)

resetAll(before) == save(cancel(before), emptyPreferences)

verticalInputsChanged(a, b) ==
    \E field \in {"workspaceHeight", "chrome", "strip", "tabs", "hexChrome", "gutter", "dockCollapsed", "bytesVisible"} :
      a[field] # b[field]

Ends(c, next) ==
    /\ c.drag # Null
    /\ IF isVertical(c.drag.panel)
       THEN verticalInputsChanged(metrics, next) \/ compactForWidth(next, compact) # compact
       ELSE metrics.viewportWidth # next.viewportWidth \/ metrics.viewportHeight # next.viewportHeight

-----------------------------------------------------------------------------
(* The dividers.                                                           *)

direction(panel) == IF panel \in {"inspection", "values"} THEN -1 ELSE 1

Candidate(panel, h, coordinate) == h.startValue + direction(panel) * (coordinate - h.origin)

\* A coordinate that is clamped is where the pointer is measured from next.
Measured(h, coordinate, candidate, next) ==
    IF next = candidate THEN h ELSE [h EXCEPT !.origin = coordinate, !.startValue = next]

\* The end of an event: what the coordinator did, and the dividers h.  A new epoch reaches every
\* divider before anything else happens, and they end what they have.
Becomes(c, h) ==
    /\ events < MaxEvents /\ events' = events + 1
    /\ preferences' = c.preferences /\ drag' = c.drag
    /\ cancelEpoch' = IF c.cancelled THEN 1 - cancelEpoch ELSE cancelEpoch
    /\ handles' = IF c.cancelled THEN [p \in Panels |-> Null] ELSE h
    /\ IF ~c.save THEN UNCHANGED <<storage, writeLost>>
       ELSE \/ storage' = [version |-> "v1", sizes |-> c.preferences] /\ writeLost' = FALSE
            \/ writeLost' = TRUE /\ UNCHANGED storage

Pointed(c, h) == Becomes(c, h) /\ UNCHANGED <<metrics, compact>>
Released(panel) == [handles EXCEPT ![panel] = Null]

PointerDown(panel, x) ==
    /\ handles[panel] = Null
    /\ \E size \in {layout.sizes[panel]} :
         Pointed(begin(Now, panel),
                 [handles EXCEPT ![panel] = [origin |-> x, startValue |-> size, original |-> size,
                                             pending |-> Null]])

PointerMove(panel, x) ==
    /\ handles[panel] # Null
    /\ \E candidate \in {Candidate(panel, handles[panel], x)} :
       \E value \in {clamp(candidate, layout.bounds[panel])} :
         Pointed(Now, [handles EXCEPT ![panel] = [Measured(@, x, candidate, value) EXCEPT !.pending = value]])

FrameRuns(panel) ==
    /\ handles[panel] # Null /\ handles[panel].pending # Null
    /\ Pointed(preview(Now, panel, handles[panel].pending), [handles EXCEPT ![panel].pending = Null])

\* A drag that ends where it began is no choice of a size.
PointerUp(panel, x) ==
    /\ handles[panel] # Null
    /\ \E value \in {clamp(Candidate(panel, handles[panel], x), layout.bounds[panel])} :
       \E shown \in {preview(Now, panel, value)} :
         Pointed(IF value = handles[panel].original THEN cancel(shown) ELSE commit(shown, panel, value),
                 Released(panel))

\* Escape, a lost capture, a divider disabled or removed.
HandleCancelled(panel) == handles[panel] # Null /\ Pointed(cancel(Now), Released(panel))

\* The window loses the focus: every divider hears of it.
WindowBlur == (\E panel \in Panels : handles[panel] # Null) /\ Pointed(cancel(Now), [p \in Panels |-> Null])

Key(panel, delta) ==
    \E shown \in {layout} :
    \E next \in {clamp(shown.sizes[panel] + delta * direction(panel), shown.bounds[panel])} \ {shown.sizes[panel]} :
      Pointed(commit(preview(begin(Now, panel), panel, next), panel, next), handles)

DoubleClick(panel) ==
    Pointed(reset(IF handles[panel] = Null THEN Now ELSE cancel(Now), panel), Released(panel))

ResetPanels == Pointed(resetAll(Now), handles)

Measure(next) ==
    LET sane == [next EXCEPT !.hexChrome = IF @ > 0 THEN @ ELSE metrics.hexChrome] IN
    /\ sane # metrics
    /\ metrics' = sane /\ compact' = compactForWidth(sane, compact)
    /\ Becomes(IF Ends(Now, sane) THEN cancel(Now) ELSE Now, handles)

\* The page is opened again.
Reload ==
    /\ events < MaxEvents /\ events' = events + 1
    /\ preferences' = readLayoutPreferences(storage)
    /\ drag' = Null /\ cancelEpoch' = 0 /\ handles' = [p \in Panels |-> Null] /\ writeLost' = FALSE
    /\ compact' = compactForWidth(metrics, TRUE) /\ UNCHANGED <<metrics, storage>>

Next ==
    \/ \E panel \in Panels :
         \/ \E x \in Coordinates : PointerDown(panel, x) \/ PointerMove(panel, x) \/ PointerUp(panel, x)
         \/ FrameRuns(panel) \/ HandleCancelled(panel) \/ DoubleClick(panel)
         \/ \E delta \in {-18, 72} : Key(panel, delta)
    \/ WindowBlur \/ ResetPanels \/ Reload
    \/ \E m \in Measurements : Measure(m)

Spec == Init /\ [][Next]_layoutVars

-----------------------------------------------------------------------------
(* Properties.                                                             *)

\* Whatever ends a drag, nothing of it stays: the coordinator drags only for a divider that has
\* the pointer, and what it holds for the sizes is what is stored, and what the drag would
\* restore (use-panel-layout.svelte.ts:229-247, resize-handle.ts:97-130).
NoDragIsStranded ==
    /\ drag # Null => handles[drag.panel] # Null /\ drag.preferences = preferences
    /\ ~writeLost => readLayoutPreferences(storage) = preferences

\* The divider moves its own panel and the results: the other panel stays where it was when the
\* drag began, and every size is within the bounds its divider announces
\* (use-panel-layout.svelte.ts:199-213, panel-layout.ts:74-108).
NeighboursStay == \E shown \in {layout} :
    /\ drag # Null => \A p \in {"query", "inspection"} \ {drag.panel} :
                        isVertical(drag.panel) => shown.sizes[p] = drag.sizes[p]
    /\ \A p \in Panels : ~(metrics.dockCollapsed /\ p = "inspection") =>
         shown.bounds[p].min <= shown.sizes[p] /\ shown.sizes[p] <= shown.bounds[p].max

PanelsHold == NoDragIsStranded /\ NeighboursStay

=============================================================================
