----------------------------- MODULE QueryLibrary ----------------------------
(***************************************************************************)
(* The saved queries and the history of several tabs over one browser store    *)
(* (library.ts, idb-store.ts, store.ts).  A tab changes its memory first and     *)
(* queues the write behind; a write announces its kind of change to the other     *)
(* tabs, which read the store again.                                           *)
(*                                                                         *)
(* A saved query is [id, at]: at stands for its text and updatedAt.  A history   *)
(* entry is [id, sql, at].  A queue is run from its head; a job of several         *)
(* storage transactions is replaced by what is left of it.                      *)
(***************************************************************************)
EXTENDS Naturals, Sequences, SequencesExt, FiniteSetsExt

CONSTANTS
    Tabs,
    MaxCalls,      \* bound: calls and openings of all tabs
    HistoryLimit   \* settings.historyLimit

\* Of the constants; assumed by the module that instantiates this one.
LibraryAssumption == MaxCalls \in Nat /\ HistoryLimit \in Nat

VARIABLES
    stored,   \* the store: saved, history and persistHistory; owed says that a clear
              \* of the history was lost, and that none has landed since
    tabs,     \* each tab's library
    inbox,    \* the changes announced to each tab, not yet received
    calls     \* the calls made, which is also the time

libraryVars == <<stored, tabs, inbox, calls>>

NoTab == [at |-> "closed", saved |-> {}, history |-> <<>>, persist |-> FALSE,
          count |-> 0, queue |-> <<>>, told |-> FALSE, missed |-> FALSE]

Init ==
    /\ stored = [saved |-> {}, history |-> <<>>, persist |-> FALSE, owed |-> FALSE]
    /\ tabs = [t \in Tabs |-> [NoTab EXCEPT !.at = "open"]]
    /\ inbox = [t \in Tabs |-> <<>>]
    /\ calls = 0

-----------------------------------------------------------------------------
(* The store.                                                              *)

Put(saved, query) == {s \in saved : s.id # query.id} \cup {query}

\* trimHistory, of entries listed newest first.
trimHistory(entries, limit) == SubSeq(entries, 1, IF limit < Len(entries) THEN limit ELSE Len(entries))

\* putHistory, in the order of ranAt.
Kept(history, entry, limit) ==
    LET others == SelectSeq(history, LAMBDA e : e.id # entry.id)
        newer  == SelectSeq(others, LAMBDA e : e.at > entry.at)
        older  == SelectSeq(others, LAMBDA e : e.at <= entry.at)
    IN  trimHistory(newer \o <<entry>> \o older, limit)

\* The switch is checked in the transaction of the write.
putHistory(s, entry) ==
    IF s.persist THEN [s EXCEPT !.history = Kept(@, entry, HistoryLimit)] ELSE s

\* clearHistory.
Cleared(s) == [s EXCEPT !.history = <<>>, !.owed = FALSE]

\* A write that landed is announced to the other tabs; one that is still opening does
\* not listen yet.
Announces(t, change) ==
    /\ inbox' = [u \in Tabs |-> IF u # t /\ tabs[u].at = "open" THEN Append(inbox[u], change)
                                                                ELSE inbox[u]]

Missed(t) == {u \in Tabs \ {t} : tabs[u].at = "opening"}

-----------------------------------------------------------------------------
(* Opening and closing a tab.                                              *)

MayCall == calls < MaxCalls /\ calls' = calls + 1

\* open(): the saved queries, the settings and the history are read ...
OpensTab(t) ==
    /\ tabs[t].at = "closed" /\ MayCall
    /\ tabs' = [tabs EXCEPT ![t] =
         [NoTab EXCEPT !.at = "opening", !.saved = stored.saved, !.persist = stored.persist,
                       !.history = IF stored.persist THEN stored.history ELSE <<>>]]
    /\ UNCHANGED <<stored, inbox>>

\* ... history left behind by a failed clear is swept, and only then it subscribes.
Opened(t) ==
    /\ tabs[t].at = "opening"
    /\ \/ /\ ~tabs[t].persist /\ ~stored.persist
          /\ stored' = Cleared(stored)
          /\ Announces(t, "history")
          /\ tabs' = [u \in Tabs |-> IF u = t THEN [tabs[u] EXCEPT !.at = "open"]
                                     ELSE [tabs[u] EXCEPT !.missed = @ \/ u \in Missed(t)]]
       \/ /\ tabs' = [tabs EXCEPT ![t].at = "open"]
          /\ UNCHANGED <<stored, inbox>>
    /\ UNCHANGED calls

\* dispose(): what is queued finds the store closed, and nobody is told.
Disposes(t) ==
    /\ tabs[t].at = "open"
    /\ tabs' = [tabs EXCEPT ![t] = NoTab]
    /\ inbox' = [inbox EXCEPT ![t] = <<>>]
    /\ stored' = [stored EXCEPT !.owed =
         @ \/ \E i \in DOMAIN tabs[t].queue : tabs[t].queue[i].op \in {"off", "clear"}]
    /\ UNCHANGED calls

-----------------------------------------------------------------------------
(* The calls: memory first, and a job behind what is queued.                 *)

\* Tab t's library becomes lib with a job more.
Mutates(t, lib, job) ==
    /\ tabs' = [tabs EXCEPT ![t] = [lib EXCEPT !.count = @ + 1, !.queue = Append(@, job)]]
    /\ UNCHANGED <<stored, inbox>>

\* save(), and importQueries() of a query the library does not have.
Saves(t) ==
    LET query == [id |-> calls', at |-> calls'] IN
    /\ tabs[t].at = "open" /\ MayCall
    /\ Mutates(t, [tabs[t] EXCEPT !.saved = @ \cup {query}], [op |-> "put", query |-> query])

\* update().
Updates(t) ==
    /\ tabs[t].at = "open" /\ MayCall
    /\ \E old \in tabs[t].saved :
         LET query == [old EXCEPT !.at = calls'] IN
         Mutates(t, [tabs[t] EXCEPT !.saved = Put(@, query)], [op |-> "put", query |-> query])

\* remove(); restore() puts what it returned back, as Restores does.
Removes(t) ==
    /\ tabs[t].at = "open" /\ MayCall
    /\ \E old \in tabs[t].saved :
         Mutates(t, [tabs[t] EXCEPT !.saved = @ \ {old}], [op |-> "delete", query |-> old])

Restores(t) ==
    /\ tabs[t].at = "open" /\ MayCall
    /\ \E i \in DOMAIN tabs[t].queue :
         LET job == tabs[t].queue[i] IN
         /\ job.op = "delete"
         /\ Mutates(t, [tabs[t] EXCEPT !.saved = Put(@, job.query)],
                    [op |-> "put", query |-> job.query])

\* recordRun(): the same query run again is the newest entry, with a new time.
Records(t) ==
    /\ tabs[t].at = "open" /\ MayCall
    /\ \E sql \in {"a", "b"} :
         LET history == tabs[t].history
             again == history # <<>> /\ Head(history).sql = sql
             entry == [id |-> IF again THEN Head(history).id ELSE calls', sql |-> sql,
                       at |-> calls']
             others == SelectSeq(history, LAMBDA e : e.id # entry.id)
         IN  Mutates(t, [tabs[t] EXCEPT !.history = trimHistory(<<entry>> \o others, HistoryLimit)],
                     [op |-> "record", entry |-> entry])

\* setPersistHistory(): what is in memory is written, or what is stored is cleared.
TurnsOn(t) ==
    /\ tabs[t].at = "open" /\ MayCall
    /\ ~tabs[t].persist
    /\ Mutates(t, [tabs[t] EXCEPT !.persist = TRUE],
               [op |-> "on", entries |-> Reverse(tabs[t].history)])

TurnsOff(t) ==
    /\ tabs[t].at = "open" /\ MayCall
    /\ tabs[t].persist
    /\ Mutates(t, [tabs[t] EXCEPT !.persist = FALSE], [op |-> "off"])

ClearsHistory(t) ==
    /\ tabs[t].at = "open" /\ MayCall
    /\ Mutates(t, [tabs[t] EXCEPT !.history = <<>>], [op |-> "clear"])

Call(t) ==
    \/ Saves(t) \/ Updates(t) \/ Removes(t) \/ Restores(t)
    \/ Records(t) \/ TurnsOn(t) \/ TurnsOff(t) \/ ClearsHistory(t)

-----------------------------------------------------------------------------
(* The queue.                                                              *)

\* What is left of tab t's queue, with jobs in place of its head.
Rest(t, jobs) == jobs \o Tail(tabs[t].queue)

\* The tab whose queue becomes queue, and the tabs that miss its announcement.
Left(t, queue, missed) ==
    [u \in Tabs |-> IF u = t THEN [tabs[u] EXCEPT !.queue = queue]
                    ELSE [tabs[u] EXCEPT !.missed = @ \/ u \in missed]]

\* A write commits: the store is s, and the job goes on with jobs.
Commits(t, s, change, jobs) ==
    /\ stored' = s
    /\ IF s = stored /\ change = "none" THEN inbox' = inbox ELSE Announces(t, change)
    /\ tabs' = Left(t, Rest(t, jobs), IF change = "none" THEN {} ELSE Missed(t))

\* persist(): the error is announced to the listeners, and the queue goes on (bound: one
\* failed job of a tab).
Fails(t, jobs) ==
    /\ ~tabs[t].told
    /\ tabs' = [tabs EXCEPT ![t].queue = Rest(t, jobs), ![t].told = TRUE]
    /\ UNCHANGED inbox

Job(t, op) == tabs[t].at = "open" /\ tabs[t].queue # <<>> /\ Head(tabs[t].queue).op = op

\* Each entry is written on its own, until a turn-off overtakes.
Puts(t, entries, jobs) ==
    LET s == putHistory(stored, Head(entries)) IN
    IF entries = <<>> \/ ~tabs[t].persist THEN Commits(t, stored, "none", jobs)
    ELSE Commits(t, s, IF stored.persist THEN "history" ELSE "none",
                 IF Len(entries) = 1 THEN jobs ELSE <<[op |-> "puts", entries |-> Tail(entries)]>>)

Writes(t) ==
    LET job == Head(tabs[t].queue) IN
    \/ /\ Job(t, "put")
       /\ Commits(t, [stored EXCEPT !.saved = Put(@, job.query)], "saved", <<>>)
    \/ /\ Job(t, "delete")
       /\ Commits(t, [stored EXCEPT !.saved = {q \in @ : q.id # job.query.id}], "saved", <<>>)
    \/ Job(t, "record") /\ Puts(t, <<job.entry>>, <<>>)
    \/ Job(t, "puts") /\ Puts(t, job.entries, <<>>)
    \/ /\ Job(t, "on")
       /\ Commits(t, [stored EXCEPT !.persist = TRUE], "settings",
                  <<[op |-> "puts", entries |-> job.entries]>>)
    \/ /\ Job(t, "off")
       /\ Commits(t, [stored EXCEPT !.persist = FALSE], "settings", <<[op |-> "clear"]>>)
    \/ Job(t, "clear") /\ Commits(t, Cleared(stored), "history", <<>>)

\* A failed turn-off is cleaned up after all the same.
WriteFails(t) ==
    /\ \E op \in {"put", "delete", "record", "puts", "on", "off", "clear"} : Job(t, op)
    /\ Fails(t, IF Job(t, "off") THEN <<[op |-> "clear"]>> ELSE <<>>)
    /\ stored' = [stored EXCEPT !.owed = @ \/ Job(t, "clear")]

\* reload(): the memory's count is taken when the announcement arrives.
Receives(t) ==
    /\ tabs[t].at = "open" /\ inbox[t] # <<>>
    /\ inbox' = [inbox EXCEPT ![t] = Tail(@)]
    /\ tabs' = [tabs EXCEPT ![t].queue =
         Append(@, [op |-> "reload", change |-> Head(inbox[t]), seen |-> tabs[t].count])]
    /\ UNCHANGED stored

Again(t, change) ==
    tabs' = [tabs EXCEPT ![t].queue =
               Append(Tail(@), [op |-> "reload", change |-> change, seen |-> tabs[t].count])]

\* queueReload: the job goes to the end of the queue if the memory moved meanwhile.
Reads(t) ==
    /\ Job(t, "reload")
    /\ LET job == Head(tabs[t].queue) IN
       IF tabs[t].count # job.seen THEN Again(t, job.change)
       ELSE IF job.change = "history" /\ ~tabs[t].persist
            THEN tabs' = [tabs EXCEPT ![t].queue = Tail(@)]
            ELSE tabs' = [tabs EXCEPT ![t].queue =
                   <<[op |-> "apply", change |-> job.change, seen |-> job.seen,
                      read |-> stored]>> \o Tail(@)]
    /\ UNCHANGED <<stored, inbox>>

ReadFails(t) == Job(t, "reload") /\ Fails(t, <<>>) /\ UNCHANGED stored

\* A bug to be caught: what was read is applied over a change made meanwhile.
AppliesAnyway(t) ==
    /\ Job(t, "apply")
    /\ tabs' = [tabs EXCEPT ![t].queue = Tail(@),
                            ![t].saved = IF Head(tabs[t].queue).change = "saved"
                                         THEN Head(tabs[t].queue).read.saved ELSE @]
    /\ UNCHANGED <<stored, inbox>>

Applies(t) ==
    /\ Job(t, "apply")
    /\ LET job == Head(tabs[t].queue)
           lib == [tabs[t] EXCEPT !.queue = Tail(@)] IN
       IF tabs[t].count # job.seen THEN Again(t, job.change)
       ELSE tabs' = [tabs EXCEPT ![t] =
              CASE job.change = "saved"    -> [lib EXCEPT !.saved = job.read.saved]
                [] job.change = "settings" -> [lib EXCEPT !.persist = job.read.persist]
                [] job.change = "history"  -> [lib EXCEPT !.history = job.read.history]]
    /\ UNCHANGED <<stored, inbox>>

QueueStep(t) ==
    /\ Writes(t) \/ WriteFails(t) \/ Receives(t) \/ Reads(t) \/ ReadFails(t) \/ Applies(t)
    /\ UNCHANGED calls

Next == \E t \in Tabs : Call(t) \/ OpensTab(t) \/ Opened(t) \/ Disposes(t) \/ QueueStep(t)

Spec == Init /\ [][Next]_libraryVars

-----------------------------------------------------------------------------
(* Properties.                                                             *)

Settled == \A t \in Tabs : tabs[t].at # "opening" /\ tabs[t].queue = <<>> /\ inbox[t] = <<>>

\* Once nothing is queued or announced, every tab shows the saved queries and the switch
\* that are stored, whatever the order of the tabs' writes, unless it has reported a
\* storage error or was still opening when a change was announced (library.ts:49-54).
TabsAgree ==
    Settled => \A t \in Tabs :
      tabs[t].at = "open" /\ ~tabs[t].told /\ ~tabs[t].missed =>
        tabs[t].saved = stored.saved /\ tabs[t].persist = stored.persist

\* A history switched off is not left in the store, unless a clear of it is still queued
\* or was lost to a failure or a closing tab (idb-store.ts:91-94).
OffLeavesNothing ==
    ~stored.persist /\ stored.history # <<>> =>
      \/ stored.owed
      \/ \E t \in Tabs : \E i \in DOMAIN tabs[t].queue : tabs[t].queue[i].op \in {"off", "clear"}

=============================================================================
