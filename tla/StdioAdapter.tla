---------------------------- MODULE StdioAdapter ----------------------------
(***************************************************************************)
(* rust-mcp-stdio: it reads JSON-RPC lines from stdin one at a time, posts *)
(* each to the server and writes what comes back.  A client that sent      *)
(* initialize stays on the legacy protocol; when its session is gone the   *)
(* adapter replays the handshake and sends the line again.                 *)
(*                                                                         *)
(* The server is module Sessions; a line is an initialize, a request, a    *)
(* notification or text that is no JSON.                                   *)
(***************************************************************************)
EXTENDS Sessions

CONSTANTS
    MaxLines,        \* lines the client writes
    MaxProxyFaults   \* posts that fail, before or after the server ran them

VARIABLES
    adapter,   \* Upstream, and where the line being forwarded is
    line,      \* lines read so far, and the kind of the last one
    ran,       \* what the server has run, in order
    answers,   \* what the adapter has written: one record per answered line
    proxyFaults

proxyVars == <<adapter, line, ran, answers, proxyFaults>>

Kinds == {"initialize", "request", "notification", "garbage"}
ProxyInit ==
    /\ adapter = [pc |-> "read", session |-> 0, legacy |-> FALSE, back |-> "none", again |-> FALSE]
    /\ line = [n |-> 0, kind |-> "none"]
    /\ ran = {} /\ answers = {}
    /\ proxyFaults = 0

\* Messages are written: a request is answered under its id; a notification
\* only by an error, with a null id.
Written(a, kind) ==
    /\ answers' = IF line.kind = "notification" /\ kind = "result" THEN answers
                  ELSE answers \cup {[line |-> line.n, of |-> line.kind, kind |-> kind]}
    /\ adapter' = [a EXCEPT !.pc = "read", !.again = FALSE]

\* The next line: a parse error is answered at once, an initialize forgets the
\* session, and a legacy line without a session needs the handshake first.
ReadLine(kind) ==
    /\ adapter.pc = "read" /\ line.n < MaxLines
    /\ line' = [n |-> line.n + 1, kind |-> kind]
    /\ IF kind = "garbage"
       THEN answers' = answers \cup {[line |-> line.n + 1, of |-> kind, kind |-> "parse error"]} /\ UNCHANGED adapter
       ELSE /\ adapter' = CASE kind = "initialize"
                                   -> [adapter EXCEPT !.session = 0, !.legacy = TRUE, !.pc = "send"]
                            [] kind # "initialize" /\ adapter.legacy /\ adapter.session = 0
                                   -> [adapter EXCEPT !.pc = "replay"]
                            [] OTHER -> [adapter EXCEPT !.pc = "send"]
            /\ UNCHANGED answers
    /\ UNCHANGED <<ran, proxyFaults>> /\ UNCHANGED sessionVars

\* What the server runs of the line, under a session or without one.
Runs(session) ==
    ran' = ran \cup {[line |-> line.n, nth |-> Cardinality({r \in ran : r.line = line.n}),
                      session |-> session]}

\* A session id the server knows: live, or restored from its row first.
Restorable(s) == s # 0 /\ s \notin live /\ HasRow(s)

\* The post restores the session it names.
SendRestores ==
    /\ adapter.pc \in {"send", "initialized"} /\ Restorable(adapter.session)
    /\ LoadSession(adapter.session)
    /\ adapter' = [adapter EXCEPT !.pc = "restoring", !.back = adapter.pc]
    /\ UNCHANGED <<line, ran, answers, proxyFaults>>

\* The session is restored and the post goes on, or the server restarted under
\* it and the call failed.
SendRestored ==
    /\ adapter.pc = "restoring" /\ restoring = 0
    /\ IF adapter.session \in live
       THEN adapter' = [adapter EXCEPT !.pc = adapter.back, !.back = "none"] /\ UNCHANGED answers
       ELSE Written([adapter EXCEPT !.back = "none"], "error")
    /\ UNCHANGED <<line, ran, proxyFaults>> /\ UNCHANGED sessionVars

\* Mutant: a post that got no answer is sent once more.
SendLineTwice ==
    /\ adapter.pc = "send" /\ line.kind # "initialize" /\ restoring = 0
    /\ adapter.session \in live \cup {0}
    /\ Runs(adapter.session)
    /\ \/ Written(adapter, "result") /\ UNCHANGED proxyFaults
       \/ /\ proxyFaults < MaxProxyFaults /\ proxyFaults' = proxyFaults + 1
          /\ UNCHANGED <<answers, adapter>>
    /\ UNCHANGED line /\ UNCHANGED sessionVars

\* The server runs the line; its answer arrives, or the adapter reports that the
\* call failed.
SendLine ==
    /\ adapter.pc = "send" /\ line.kind # "initialize" /\ restoring = 0
    /\ adapter.session \in live \cup {0}
    /\ Runs(adapter.session)
    /\ \/ Written(adapter, "result") /\ UNCHANGED proxyFaults
       \/ /\ proxyFaults < MaxProxyFaults /\ proxyFaults' = proxyFaults + 1
          /\ Written(adapter, "error")
    /\ UNCHANGED line /\ UNCHANGED sessionVars

\* The server creates a session for an initialize, the client's or the replayed
\* one; the response may be lost, and the session with it.
SendInitialize(s) ==
    /\ \/ adapter.pc = "send" /\ line.kind = "initialize"
       \/ adapter.pc = "replay"
    /\ StoreSession(s)
    /\ \/ /\ IF adapter.pc = "send" THEN Written([adapter EXCEPT !.session = s], "result")
             ELSE adapter' = [adapter EXCEPT !.session = s, !.pc = "initialized"] /\ UNCHANGED answers
          /\ UNCHANGED proxyFaults
       \/ /\ proxyFaults < MaxProxyFaults /\ proxyFaults' = proxyFaults + 1
          /\ Written([adapter EXCEPT !.session = 0], "error")
    /\ UNCHANGED <<line, ran>>

\* notifications/initialized of a replayed handshake; its status is not looked
\* at, and when the post fails the new session is kept all the same.
SendInitialized ==
    /\ adapter.pc = "initialized" /\ restoring = 0 /\ ~ Restorable(adapter.session)
    /\ \/ /\ adapter' = [adapter EXCEPT !.pc = "send"] /\ UNCHANGED <<answers, proxyFaults>>
       \/ /\ proxyFaults < MaxProxyFaults /\ proxyFaults' = proxyFaults + 1
          /\ Written(adapter, "error")
    /\ UNCHANGED <<line, ran>> /\ UNCHANGED sessionVars

\* HTTP 404: the session is neither live nor stored.  The first time the
\* handshake is replayed; the second 404 is what the client gets.
SendNotFound ==
    /\ adapter.pc = "send" /\ line.kind # "initialize" /\ restoring = 0
    /\ adapter.session # 0 /\ adapter.session \notin live /\ ~ HasRow(adapter.session)
    /\ IF adapter.again THEN Written(adapter, "error")
       ELSE adapter' = [adapter EXCEPT !.session = 0, !.again = TRUE, !.pc = "replay"] /\ UNCHANGED answers
    /\ UNCHANGED <<line, ran, proxyFaults>> /\ UNCHANGED sessionVars

\* The server cannot be reached, or answers with an HTTP error: the line fails.
SendFails ==
    /\ adapter.pc \in {"send", "replay"}
    /\ proxyFaults < MaxProxyFaults /\ proxyFaults' = proxyFaults + 1
    /\ Written(IF adapter.pc = "replay" THEN [adapter EXCEPT !.session = 0] ELSE adapter, "error")
    /\ UNCHANGED <<line, ran>> /\ UNCHANGED sessionVars

AdapterStep ==
    \/ \E kind \in Kinds : ReadLine(kind)
    \/ SendRestores \/ SendRestored \/ SendLine \/ SendInitialized \/ SendNotFound \/ SendFails
    \/ \E s \in SessionIds : SendInitialize(s)

ProxyNext ==
    \/ AdapterStep
    \/ (ServerStep \/ RestoreSession) /\ UNCHANGED proxyVars

ProxySpec == SessionInit /\ ProxyInit /\ [][ProxyNext]_<<sessionVars, proxyVars>>
-----------------------------------------------------------------------------
(* Properties. *)

\* forward delivers a line at most once, whatever expires, restarts or is lost
\* while a handshake is replayed: no line runs twice, a line answered with a
\* result ran, every line but a notification has one answer before the next one is
\* read, and after initialize nothing runs outside a session.
LinesOnce ==
    /\ \A r \in ran : r.nth = 0
    /\ \A a \in answers : a.of = "request" /\ a.kind = "result" => \E r \in ran : r.line = a.line
    /\ \A a, b \in answers : a.line = b.line => a = b
    /\ adapter.pc = "read" /\ line.n > 0 /\ line.kind # "notification"
           => \E a \in answers : a.line = line.n
    /\ \A r \in ran : adapter.legacy /\ r.line = line.n => r.session # 0
=============================================================================
