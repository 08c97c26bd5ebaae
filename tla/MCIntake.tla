------------------------------- MODULE MCIntake -------------------------------
(***************************************************************************)
(* The web app around an open batch, for TLC: opening files (Intake), the hex  *)
(* view of their bytes (HexView), the panels both are shown in (PanelLayout),   *)
(* and the saved queries that several tabs of the app share (QueryLibrary).     *)
(*                                                                         *)
(* A behaviour is about one of the parts in Parts, the others keep their       *)
(* initial values: HexView has the opening of files as an event of its own, the  *)
(* panels do not look at what they hold, and the library knows of no batch.     *)
(***************************************************************************)
EXTENDS Integers, Sequences, Intake

CONSTANTS
    Parts,  \* which parts the run is about
    Null

VARIABLES
    part,                                                  \* what the behaviour is about
    session, hexFile, pane, cache, orphans, painted, paintDue, events,  \* of HexView
    preferences, metrics, drag, cancelEpoch, compact, storage, handles, writeLost, changes,  \* of PanelLayout
    stored, tabs, inbox, calls                             \* of QueryLibrary

\* A long and a short file, then the long one's name again with a short file behind it; rows
\* of either, one of them made of two ranges.
Batches == <<[a |-> 10, b |-> 6], [a |-> 6]>>
Windows == {<<[file |-> "b", ranges |-> <<<<4, 5>>>>],
              [file |-> "a", ranges |-> <<<<4, 5>>, <<8, 10>>>>]>>}

H == INSTANCE HexView WITH
       Offsets <- {9}, Moves <- {2}, BytesPerRow <- 2, PageBytes <- 4, CachePages <- 2,
       ViewRows <- 1, MaxEvents <- 3

\* A window with room for all panels, and one in which the limits are met.
Metric(width, height, hexChrome) ==
    [viewportWidth |-> width, viewportHeight |-> height, shellWidth |-> width,
     workspaceHeight |-> height - 100, dockWidth |-> width - 380, chrome |-> 90, strip |-> 36,
     tabs |-> 30, hexChrome |-> hexChrome, gutter |-> 8, dockCollapsed |-> FALSE,
     bytesVisible |-> TRUE]
Measurements == {Metric(1400, 900, 60), Metric(1290, 560, 60)}
\* Preferences of an older version, which kept a height.
Saved == {[version |-> "height", height |-> 400]}

L == INSTANCE PanelLayout WITH Coordinates <- {0, 200}, MaxEvents <- 3, events <- changes

Q == INSTANCE QueryLibrary WITH Tabs <- {"a", "b"}, MaxCalls <- 3, HistoryLimit <- 1

ASSUME PartsAssumption ==
    /\ Parts \subseteq {"intake", "chain", "hex", "panels", "library"}
    /\ H!HexViewAssumption /\ Q!LibraryAssumption

hexVars     == <<session, hexFile, pane, cache, orphans, painted, paintDue, events>>
layoutVars  == <<preferences, metrics, drag, cancelEpoch, compact, storage, handles, writeLost, changes>>
libraryVars == <<stored, tabs, inbox, calls>>
mcVars      == <<vars, hexVars, layoutVars, libraryVars, part>>

MCInit ==
    /\ part \in Parts
    /\ part = "panels" \/ metrics = Metric(1400, 900, 60)
    /\ Init /\ H!Init /\ L!Init /\ Q!Init

\* Bounds.  "intake" has two opens, with cancels, disposal and every failure of the
\* environment, and ShortRun batches; "chain" one open left to itself, with MaxBatches: as
\* many as it takes for a whole window to be chained behind a file that fails and for the
\* file begun after it to be appended too.
ShortRun == 3

Within ==
    /\ part = "intake" => Received' <= ShortRun
    /\ part = "chain" => storeGen' <= 1 /\ ~disposed'

InIntake ==
    /\ part \in {"intake", "chain"} /\ Next /\ Within
    /\ UNCHANGED <<part, hexVars, layoutVars, libraryVars>>
InHex     == part = "hex" /\ H!Next /\ UNCHANGED <<part, vars, layoutVars, libraryVars>>
InPanels  == part = "panels" /\ L!Next /\ UNCHANGED <<part, vars, hexVars, libraryVars>>
InLibrary == part = "library" /\ Q!Next /\ UNCHANGED <<part, vars, hexVars, layoutVars>>

\* The reader looks on; the open is over.
Looks ==
    /\ part # "intake" /\ (part = "chain" => \A g \in Generations : Over(g))
    /\ UNCHANGED mcVars

MCNext == InIntake \/ InHex \/ InPanels \/ InLibrary \/ Looks

MCSpec == MCInit /\ [][MCNext]_mcVars

-----------------------------------------------------------------------------
(* Properties.  Those of Intake are extended.                                   *)

\* What is on the screen is what it stands for: the bytes painted are those of the file at
\* the place shown, and the panels fit their window, with no drag left over.
ScreenHolds ==
    /\ part = "hex" => H!BytesSettle
    /\ part = "panels" => L!PanelsHold

\* The tabs of the app show the queries that are stored, and a history turned off is gone.
TabsAgree == part = "library" => Q!TabsAgree /\ Q!OffLeavesNothing

\* A row chosen in the grid has its bytes shown.
RowsAreRevealed == [][part = "hex" => H!RowIsRevealed]_hexVars

\* The hex view reads the bytes of the file that is open under the name it shows.
PaneReadsTheOpenFile == H!PaneReadsTheOpenFile
=============================================================================
