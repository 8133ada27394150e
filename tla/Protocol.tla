------------------------------ MODULE Protocol ------------------------------
(***************************************************************************)
(* Commands, replies and the hello handshake on one channel                *)
(* (agent/tcf/framework/protocol.c, notifications of channel.c).           *)
(*                                                                         *)
(* A client sends a command with a reply handler; the handler waits in the *)
(* table reply_handlers under a token.  It is called by the reply, by the  *)
(* close of the channel, by a redirection of the channel to another peer,  *)
(* or by a posted event when the command could not be sent.  The token     *)
(* counter belongs to the protocol object and wraps; replies to commands   *)
(* that were given up arrive late.                                         *)
(*                                                                         *)
(* All of it runs on the dispatch thread.  channel_closed walks through    *)
(* the table and calls handlers that may send commands again: that walk is *)
(* split into steps.  Progress messages change no state and are left out.  *)
(***************************************************************************)
EXTENDS Integers, Sequences, FiniteSets, FiniteSetsExt, SequencesExt

CONSTANTS
  Clients,     \* senders of commands, each sends one
  NoClient,    \* a handler that was set to NULL
  TokenMod,    \* tokenid wraps at TokenMod (ULONG_MAX + 1)
  HashSize,    \* REPLY_HASH_SIZE
  Redirects    \* clients that send the redirect command

ASSUME ProtocolAssumption ==
  /\ NoClient \notin Clients /\ Redirects \subseteq Clients
  /\ IsFiniteSet(Clients)
  /\ TokenMod \in Nat /\ TokenMod > 1 /\ TokenMod > Cardinality(Clients)
  /\ HashSize \in Nat \ {0}

VARIABLES
  state,           \* Channel.state
  notified_open,
  peer_services,   \* peer_service_list is not NULL
  tokenid,         \* the counter of the protocol object
  reply_handlers,  \* the entries of this channel
  failed,          \* posted calls of send_command_failed
  sweep,           \* where the walk of channel_closed stands
  opened,          \* history: the open listeners were called
  unsent,          \* clients that have not sent their command
  outstanding,     \* commands that the peer will answer
  hellos,          \* hello messages that the peer still has to send
  calls            \* history: client -> calls of its handler

chan  == <<state, notified_open, peer_services, opened>>
table == <<tokenid, reply_handlers, failed>>
peer  == <<outstanding, hellos>>
vars  == <<chan, table, sweep, unsent, peer, calls>>

\* No walk under way; else the position reached and the client to call after
\* the walk (redirect_done), or NoClient.
NoSweep  == [on |-> FALSE, b |-> 0, seq |-> 0, then |-> NoClient]
Sweep(x) == [on |-> TRUE, b |-> -1, seq |-> 0, then |-> x]

Init ==
  /\ state = "StartWait" /\ notified_open = FALSE /\ peer_services = FALSE
  /\ tokenid = 1 /\ reply_handlers = {} /\ failed = <<>>
  /\ sweep = NoSweep /\ opened = FALSE /\ unsent = Clients
  /\ outstanding = {} /\ hellos = 1
  /\ calls = [x \in Clients |-> 0]

\* The dispatch thread takes the next event.
Idle == ~sweep.on

Call(x) == calls' = IF x = NoClient THEN calls ELSE [calls EXCEPT ![x] = @ + 1]

-----------------------------------------------------------------------------
(* reply_handlers.                                                         *)

Bucket(token) == token % HashSize

Tokens == {h.token : h \in reply_handlers}

\* The loop that skips tokens in use.
NewToken ==
  LET offset == Min({n \in 0..TokenMod - 1 : (tokenid + n) % TokenMod \notin Tokens})
  IN  (tokenid + offset) % TokenMod

\* Entries are linked in at the head of their chain: seq counts them.
NextSeq == IF reply_handlers = {} THEN 1 ELSE Max({h.seq : h \in reply_handlers}) + 1

\* protocol_send_command_with_progress.  A command that cannot be sent fails
\* by an event.
Send(x, redirect) ==
  /\ x \in unsent /\ unsent' = unsent \ {x}
  /\ IF state = "Disconnected" \/ ~peer_services
     THEN /\ failed' = Append(failed, [client |-> x, redirect |-> redirect])
          /\ UNCHANGED <<tokenid, reply_handlers, outstanding>>
     ELSE /\ tokenid' = (NewToken + 1) % TokenMod
          /\ reply_handlers' = reply_handlers \cup
               {[token |-> NewToken, client |-> x, redirect |-> redirect, seq |-> NextSeq]}
          /\ outstanding' = outstanding \cup
               {[token |-> NewToken, client |-> x, redirect |-> redirect]}
          /\ UNCHANGED failed
  /\ UNCHANGED <<hellos, calls, sweep>>

\* A client sends a command once the channel was opened, also from a handler
\* that channel_closed calls.
SendCommand(x) ==
  /\ opened /\ (sweep.on => sweep.b >= 0)
  /\ x \notin Redirects
  /\ Send(x, FALSE)
  /\ UNCHANGED chan

\* send_redirect_command_by_id, send_redirect_command_by_props
SendRedirect(x) ==
  /\ Idle /\ x \in Redirects
  /\ state = "Connected"
  /\ state' = "RedirectSent"
  /\ Send(x, TRUE)
  /\ UNCHANGED <<notified_open, peer_services, opened>>

\* Another channel of the same protocol object takes a token.
OtherTakesToken ==
  /\ tokenid' = (tokenid + 1) % TokenMod
  /\ UNCHANGED <<chan, reply_handlers, failed, sweep, unsent, peer, calls>>

-----------------------------------------------------------------------------
(* The handshake.                                                          *)

\* channel_start
Start ==
  /\ Idle /\ state = "StartWait"
  /\ state' = "Started"
  /\ UNCHANGED <<notified_open, peer_services, opened, table, sweep, unsent, peer, calls>>

\* connect_done with notify_channel_opened
Connect == state' = "Connected" /\ notified_open' = TRUE /\ opened' = TRUE

\* send_hello_message, from start_channel or later from "connecting".
SendHello ==
  /\ Idle /\ state \in {"Started", "HelloReceived"}
  /\ IF state = "Started"
     THEN state' = "HelloSent" /\ UNCHANGED <<notified_open, opened>>
     ELSE Connect
  /\ UNCHANGED <<peer_services, table, sweep, unsent, peer, calls>>

\* event_locator_hello: some says whether the peer names a service.
Hello(some) ==
  /\ Idle /\ hellos > 0
  /\ state \in {"Started", "HelloSent"}
  /\ hellos' = hellos - 1
  /\ peer_services' = some
  /\ IF state = "Started"
     THEN state' = "HelloReceived" /\ UNCHANGED <<notified_open, opened>>
     ELSE Connect
  /\ UNCHANGED <<table, sweep, unsent, outstanding, calls>>

-----------------------------------------------------------------------------
(* Replies.                                                                *)

\* notify_channel_closed: channel_closed is called, then the handler of x.
NotifyClosed(x) ==
  /\ notified_open' = FALSE
  /\ IF notified_open
     THEN sweep' = Sweep(x) /\ UNCHANGED calls
     ELSE sweep' = NoSweep /\ Call(x)

\* handle_protocol_message for R and N: the handler of a command.
Reply(e) ==
  /\ Idle /\ state \notin {"StartWait", "Disconnected"} /\ ~e.redirect
  /\ outstanding' = outstanding \ {e}
  /\ \E h \in reply_handlers :
       /\ h.token = e.token
       /\ reply_handlers' = reply_handlers \ {h}
       /\ Call(h.client)
  /\ UNCHANGED <<chan, tokenid, failed, sweep, unsent, hellos>>

\* redirect_done after a reply without an error: the next hello comes from
\* the new peer.
RedirectAccepted(e) ==
  /\ Idle /\ state \notin {"StartWait", "Disconnected"} /\ e.redirect
  /\ outstanding' = outstanding \ {e}
  /\ \E h \in reply_handlers :
       /\ h.token = e.token
       /\ reply_handlers' = reply_handlers \ {h}
       /\ NotifyClosed(h.client)
  /\ state' = "HelloSent"
  /\ hellos' = hellos + 1
  /\ UNCHANGED <<peer_services, opened, tokenid, failed, unsent>>

\* The state after a redirection was refused.
AfterRefusal == IF state = "RedirectSent" THEN "Connected" ELSE state

\* redirect_done after an error or the reply N.
RedirectRefused(e) ==
  /\ Idle /\ state \notin {"StartWait", "Disconnected"} /\ e.redirect
  /\ outstanding' = outstanding \ {e}
  /\ \E h \in reply_handlers :
       /\ h.token = e.token
       /\ reply_handlers' = reply_handlers \ {h}
       /\ Call(h.client)
  /\ state' = AfterRefusal
  /\ UNCHANGED <<notified_open, peer_services, opened, tokenid, failed, sweep, unsent, hellos>>

\* Fault: the event is never posted.
SendCommandFailed_Lost == FALSE /\ UNCHANGED vars

\* The event queue calls send_command_failed.
SendCommandFailed ==
  /\ Idle /\ failed # <<>>
  /\ failed' = Tail(failed)
  /\ Call(Head(failed).client)
  /\ state' = IF Head(failed).redirect THEN AfterRefusal ELSE state
  /\ UNCHANGED <<notified_open, peer_services, opened, tokenid, reply_handlers, sweep,
                 unsent, peer>>

-----------------------------------------------------------------------------
(* Close.                                                                  *)

\* send_eof_and_close, for whatever reason; a reply with an unexpected token
\* is one.
Close ==
  /\ Idle /\ state # "Disconnected"
  /\ state' = "Disconnected"
  /\ NotifyClosed(NoClient)
  /\ UNCHANGED <<peer_services, opened, table, unsent, peer>>

\* The entries that the walk of channel_closed has still to visit: an entry
\* linked in at the head of the current or an earlier chain is not seen.
Ahead == {h \in reply_handlers :
            \/ Bucket(h.token) > sweep.b
            \/ Bucket(h.token) = sweep.b /\ h.seq < sweep.seq}

NextEntry ==
  LET b == Min({Bucket(h.token) : h \in Ahead})
      chain == {h \in Ahead : Bucket(h.token) = b}
  IN  CHOOSE h \in chain : \A g \in chain : g.seq <= h.seq

\* Fault: the entry is dropped although its reply is still to come.
KeepEntry_Never(h) == {}

\* Fault: the entry is kept with its handler.
KeepEntry_Handler(h) == {h}

\* A redirected channel keeps the entry, without a handler, for the late reply.
KeepEntry(h) == IF state = "Disconnected" THEN {}
                ELSE {[h EXCEPT !.client = NoClient, !.redirect = FALSE]}

\* The handler of the next entry is called.  The table is that of one channel:
\* entries of other channels in the same chain are outside of the model.
SweepStep ==
  /\ sweep.on /\ Ahead # {}
  /\ LET h == NextEntry
     IN  /\ Call(h.client)
         /\ reply_handlers' = (reply_handlers \ {h}) \cup KeepEntry(h)
         /\ sweep' = [sweep EXCEPT !.b = Bucket(h.token), !.seq = h.seq]
         /\ state' = IF h.redirect THEN AfterRefusal ELSE state
  /\ UNCHANGED <<notified_open, peer_services, opened, tokenid, failed, unsent, peer>>

SweepEnd ==
  /\ sweep.on /\ Ahead = {}
  /\ sweep' = NoSweep
  /\ peer_services' = FALSE
  /\ Call(sweep.then)
  /\ UNCHANGED <<state, notified_open, opened, table, unsent, peer>>

-----------------------------------------------------------------------------
PeerAnswers == \E e \in outstanding : Reply(e) \/ RedirectAccepted(e) \/ RedirectRefused(e)

Next ==
  \/ Start \/ SendHello \/ \E some \in BOOLEAN : Hello(some)
  \/ \E x \in Clients : SendCommand(x) \/ SendRedirect(x)
  \/ OtherTakesToken
  \/ PeerAnswers
  \/ SendCommandFailed
  \/ Close
  \/ SweepStep \/ SweepEnd

Spec == Init /\ [][Next]_vars

\* The peer answers what it is asked and completes a handshake, and events
\* are dispatched.
Fairness ==
  /\ WF_vars(PeerAnswers) /\ WF_vars(\E some \in BOOLEAN : Hello(some))
  /\ WF_vars(SweepStep \/ SweepEnd) /\ SF_vars(SendCommandFailed)

FairSpec == Spec /\ Fairness

-----------------------------------------------------------------------------
(* Properties.                                                             *)

\* Where the handler of x is still to be called from.
InTable(x)  == {h \in reply_handlers : h.client = x}
InFailed(x) == {i \in DOMAIN failed : failed[i].client = x}

Pending(x) ==
  Cardinality(InTable(x)) + Cardinality(InFailed(x)) + (IF sweep.then = x THEN 1 ELSE 0)

\* A reply handler is called once: by the reply, the close, a redirection or
\* the failure event, never by two of them.  Until then it is in exactly one
\* place.
CalledOnce == \A x \in Clients \ unsent : calls[x] + Pending(x) = 1

\* Tokens identify commands: a reply, however late, reaches the entry of the
\* command it answers, also after the counter has wrapped and after a
\* redirection has called the handlers already.  So no reply is unexpected.
ReplyFindsItsCommand ==
  state # "Disconnected" =>
    \A e \in outstanding :
      /\ \E h \in reply_handlers : h.token = e.token
      /\ \A h \in reply_handlers :
           h.token = e.token => h.client \in {e.client, NoClient}

\* Every command is answered to its client while the channel lives.
EveryHandlerCalled ==
  \A x \in Clients : (x \notin unsent) ~> (calls[x] > 0 \/ state = "Disconnected")
=============================================================================
