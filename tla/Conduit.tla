------------------------------- MODULE Conduit -------------------------------
(***************************************************************************)
(* What a connection of the server promises, whatever slots, buffers and    *)
(* partial writes carry it: the handlers hand over bytes and may ask for    *)
(* the end; the peer is sent no more than was handed over; and the server   *)
(* hangs up on a peer that still listens only when all that came before the *)
(* end it was asked for has been sent.                                      *)
(***************************************************************************)
EXTENDS Naturals

CONSTANTS Conn, MayAbort   \* connections a handler may also end at any time

VARIABLES
  state,   \* "none", "open", "closed"
  gone,    \* connections whose peer closed or reset
  asked,   \* bytes handed over
  eof,     \* of these, before the first end asked for; 0 if none was
  sent     \* bytes sent

vars == <<state, gone, asked, eof, sent>>

Init ==
  /\ state = [c \in Conn |-> "none"]
  /\ gone = {}
  /\ asked = [c \in Conn |-> 0]
  /\ eof = [c \in Conn |-> 0]
  /\ sent = [c \in Conn |-> 0]

Unchanged(c) ==
  /\ state'[c] = state[c]
  /\ asked'[c] = asked[c]
  /\ eof'[c] = eof[c]
  /\ sent'[c] = sent[c]

Transfer(c) ==
  /\ state[c] # "closed" /\ state'[c] = "open"
  /\ asked'[c] >= asked[c]
  /\ eof'[c] \in (IF eof[c] = 0 THEN {0, asked'[c]} ELSE {eof[c]})
  /\ sent[c] <= sent'[c] /\ sent'[c] <= asked'[c]
  /\ UNCHANGED gone

MayHangUp(c) ==
  \/ c \in gone \union MayAbort
  \/ eof[c] # 0 /\ sent[c] = eof[c]

HangUp(c) ==
  /\ state[c] = "open" /\ MayHangUp(c)
  /\ state'[c] = "closed"
  /\ asked'[c] = asked[c] /\ eof'[c] = eof[c] /\ sent'[c] = sent[c]
  /\ gone' = gone \ {c}

NeverOpened(c) ==
  /\ state[c] = "none" /\ state'[c] = "closed"
  /\ asked'[c] = asked[c] /\ eof'[c] = eof[c] /\ sent'[c] = sent[c]
  /\ gone' = gone \ {c}

(* Handed over for a connection that is over: nobody gets it.               *)
HandedTooLate(c) ==
  /\ state[c] = "closed" /\ c \in MayAbort
  /\ asked'[c] >= asked[c]
  /\ state'[c] = state[c] /\ eof'[c] = eof[c] /\ sent'[c] = sent[c]
  /\ UNCHANGED gone

PeerGoes(c) ==
  /\ gone' = gone \union {c}
  /\ UNCHANGED <<state, asked, eof, sent>>

Next ==
  \E c \in Conn :
    \/ PeerGoes(c)
    \/ /\ \A d \in Conn \ {c} : Unchanged(d)
       /\ Transfer(c) \/ HangUp(c) \/ NeverOpened(c) \/ HandedTooLate(c)

Spec == Init /\ [][Next]_vars
=============================================================================
