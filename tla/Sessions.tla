------------------------------ MODULE Sessions ------------------------------
(***************************************************************************)
(* Legacy MCP sessions: live ones in rmcp's LocalSessionManager, persisted *)
(* ones in the sessions table, and the reaper that deletes rows nobody has *)
(* used for session_idle_timeout_secs.  rmcp consults the store only when  *)
(* a session is created, restored or deleted.                              *)
(*                                                                         *)
(* Rows are kept with the ticks since last_seen_at.                        *)
(***************************************************************************)
EXTENDS Integers, Sequences, FiniteSets

CONSTANTS
    SessionIds,     \* ids in the order they are given out: 1..n
    IdleTimeout,    \* session_idle_timeout_secs, in ticks
    MaxRestarts     \* restarts of the server

ASSUME SessionAssumption ==
    /\ SessionIds \subseteq Nat \ {0}   \* 0 stands for no session
    /\ IdleTimeout \in Nat

VARIABLES
    live,       \* LocalSessionManager.sessions
    stored,     \* the sessions table: ticks since last_seen_at, -1: no row
    used,       \* ids given out
    restoring,  \* the id a request is restoring, 0: none
    reaper,     \* the reaper: where it is, the ids it read, ticks it has taken
    restarts

sessionVars == <<live, stored, used, restoring, reaper, restarts>>

Asleep == [pc |-> "asleep", ids |-> {}, ticks |-> 0]
SessionInit ==
    /\ live = {}
    /\ stored = [s \in SessionIds |-> -1]
    /\ used = {}
    /\ restoring = 0
    /\ reaper = Asleep
    /\ restarts = 0

HasRow(s) == stored[s] >= 0

\* store, after initialize: the session is live and its row is new.
StoreSession(s) ==
    /\ s \notin used /\ \A r \in SessionIds : r < s => r \in used
    /\ used' = used \cup {s}
    /\ live' = live \cup {s}
    /\ stored' = [stored EXCEPT ![s] = 0]
    /\ UNCHANGED <<restoring, reaper, restarts>>

\* Mutant: load does not mark the session as seen.
LoadSessionUnseen(s) ==
    /\ s \in used \ live /\ restoring = 0 /\ HasRow(s)
    /\ restoring' = s
    /\ UNCHANGED <<live, stored, used, reaper, restarts>>

\* load, for a request with an id that is not live: it marks the row as seen.
LoadSession(s) ==
    /\ s \in used \ live /\ restoring = 0 /\ HasRow(s)
    /\ stored' = [stored EXCEPT ![s] = 0]
    /\ restoring' = s
    /\ UNCHANGED <<live, used, reaper, restarts>>

\* rmcp has replayed initialize: the session is live again.
RestoreSession ==
    /\ restoring # 0
    /\ live' = live \cup {restoring}
    /\ restoring' = 0
    /\ UNCHANGED <<stored, used, reaper, restarts>>

\* A client ends its session.
DeleteSession(s) ==
    /\ s \in live /\ restoring = 0
    /\ live' = live \ {s}
    /\ stored' = [stored EXCEPT ![s] = -1]
    /\ UNCHANGED <<used, restoring, reaper, restarts>>

\* rmcp drops an idle session from memory; its row stays.
ExpireInMemory(s) ==
    /\ s \in live
    /\ live' = live \ {s}
    /\ UNCHANGED <<stored, used, restoring, reaper, restarts>>

\* prune_stale reads the live ids first.
ReaperReads ==
    /\ reaper.pc = "asleep"
    /\ reaper' = [pc |-> "touch", ids |-> live, ticks |-> 0]
    /\ UNCHANGED <<live, stored, used, restoring, restarts>>

\* touch_sessions; nothing is deleted when it fails.
TouchSessions ==
    /\ reaper.pc = "touch"
    /\ \/ /\ stored' = [s \in SessionIds |-> IF s \in reaper.ids /\ HasRow(s) THEN 0 ELSE stored[s]]
          /\ reaper' = [reaper EXCEPT !.pc = "delete"]
       \/ reaper.ids # {} /\ reaper' = Asleep /\ UNCHANGED stored
    /\ UNCHANGED <<live, used, restoring, restarts>>

\* delete_stale_sessions; it may fail, and the next pass tries again.
DeleteStaleSessions ==
    /\ reaper.pc = "delete"
    /\ \/ stored' = [s \in SessionIds |-> IF stored[s] > IdleTimeout THEN -1 ELSE stored[s]]
       \/ UNCHANGED stored
    /\ reaper' = Asleep
    /\ UNCHANGED <<live, used, restoring, restarts>>

\* Time passes.  A pass of the reaper takes less than the timeout (seconds
\* against at least a minute), a restore takes no time that counts.
SessionTick ==
    /\ reaper.pc # "asleep" => reaper.ticks < IdleTimeout
    /\ restoring = 0
    /\ stored' = [s \in SessionIds |-> IF stored[s] \in 0..IdleTimeout THEN stored[s] + 1 ELSE stored[s]]
    /\ reaper' = IF reaper.pc = "asleep" THEN reaper ELSE [reaper EXCEPT !.ticks = @ + 1]
    /\ UNCHANGED <<live, used, restoring, restarts>>

\* The process restarts: only the table is left.
RestartServer ==
    /\ restarts < MaxRestarts
    /\ restarts' = restarts + 1
    /\ live' = {} /\ restoring' = 0 /\ reaper' = Asleep
    /\ UNCHANGED <<stored, used>>

ServerStep ==
    \/ \E s \in SessionIds : DeleteSession(s) \/ ExpireInMemory(s)
    \/ ReaperReads \/ TouchSessions \/ DeleteStaleSessions
    \/ SessionTick \/ RestartServer
-----------------------------------------------------------------------------
(* Properties. *)

\* prune_stale never deletes the row of a session somebody uses: a live session
\* can be restored after a restart, however its creation, its restoring and its
\* use fall between the steps of the reaper.
LiveSessionStored == \A s \in live : HasRow(s)
=============================================================================
