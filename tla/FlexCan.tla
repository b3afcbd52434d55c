------------------------------ MODULE FlexCan ------------------------------
(***************************************************************************)
(* The FlexCAN driver under libuavcan (nxpk20): the transmit and receive   *)
(* rings, the mailboxes of the controller and the message interrupt that   *)
(* moves frames between them, used through CanIface::send and receive.     *)
(*                                                                         *)
(* The main thread runs with the interrupt masked while it touches a ring  *)
(* (irqLock), so that each of its calls is one step; message_isr() is one  *)
(* step per mailbox.  The controller is external: it sends the frames of   *)
(* its transmit mailboxes in an order of its own and files an incoming     *)
(* frame in the first receive mailbox that is free.  The code RX_EMPTY     *)
(* stands for "free": the controller leaves FULL in a mailbox that was     *)
(* read, and counts it as free again.                                      *)
(***************************************************************************)
EXTENDS CanRing, FiniteSets

CONSTANTS
  NumMailBoxes,  \* getNumMailBoxes()
  numTxMailboxes,
  sizeTxBuffer, sizeRxBuffer,
  MaxTx, MaxRx   \* bounds: frames handed to send(), frames on the bus

ASSUME FlexCanAssumption ==
  /\ numTxMailboxes \in Nat \ {0}
  /\ NumMailBoxes \in Nat /\ NumMailBoxes > numTxMailboxes
  /\ sizeTxBuffer \in Nat \ {0} /\ sizeRxBuffer \in Nat \ {0}
  /\ MaxTx \in Nat /\ MaxRx \in Nat

RxBox == 0 .. NumMailBoxes - numTxMailboxes - 1
TxBox == NumMailBoxes - numTxMailboxes .. NumMailBoxes - 1
MailBox == RxBox \cup TxBox

\* A frame is its number in order of acceptance or of arrival.
Frame == 0 .. MaxTx + MaxRx
NoFrame == 0

Code == {"RX_EMPTY", "RX_FULL", "RX_OVERRUN", "TX_INACTIVE", "TX_ONCE"}

VARIABLES
  txRing, rxRing,
  code,      \* code field of each mailbox
  content,   \* frame in each mailbox
  iflag,     \* mailboxes whose bit is set in IFLAG1
  isr,       \* message_isr(): is it running,
  status,    \*   its copy of IFLAG1,
  todo,      \*   and the mailboxes of it not yet examined
  slow,      \* history: was message_isr() ever slower than the bus?
  written, arrived,  \* history: frames accepted by write(), frames arrived
  sent, got, lost    \* history: frames sent, frames read, arrivals lost

rings == <<txRing, rxRing>>
boxes == <<code, content, iflag>>
interrupt == <<isr, status, todo>>
history == <<slow, written, arrived, sent, got, lost>>
vars == <<rings, boxes, interrupt, history>>

\* The least element of S, as a set.
First(S) == {x \in S : \A y \in S : x <= y}

\* begin(), initializeBuffers(), setNumTxBoxes().
Init ==
  /\ txRing = initRingBuffer(sizeTxBuffer, NoFrame)
  /\ rxRing = initRingBuffer(sizeRxBuffer, NoFrame)
  /\ code = [m \in MailBox |-> IF m \in TxBox THEN "TX_INACTIVE" ELSE "RX_EMPTY"]
  /\ content = [m \in MailBox |-> NoFrame]
  /\ iflag = {}
  /\ isr = FALSE /\ status = {} /\ todo = {}
  /\ slow = FALSE /\ written = 0 /\ arrived = 0 /\ sent = <<>> /\ got = <<>> /\ lost = {}

-----------------------------------------------------------------------------
(* The main thread, when no interrupt is being served.                      *)

writeTxRegisters(msg, m) ==
  /\ content' = [content EXCEPT ![m] = msg]
  /\ code' = [code EXCEPT ![m] = "TX_ONCE"]

\* Mutant: a free mailbox is used even if frames wait in the ring.
FreeBoxes_Overtake == {m \in TxBox : code[m] = "TX_INACTIVE"}

\* The mailboxes that write() may fill directly.
FreeBoxes == {m \in TxBox : isRingBufferEmpty(txRing) /\ code[m] = "TX_INACTIVE"}

\* FlexCAN::write(): to the first free mailbox if nothing is buffered, else
\* to the ring, else refused.
write(msg) ==
  \/ /\ FreeBoxes # {}
     /\ \E m \in First(FreeBoxes) : writeTxRegisters(msg, m)
     /\ written' = msg
     /\ UNCHANGED txRing
  \/ /\ FreeBoxes = {} /\ ~isRingBufferFull(txRing)
     /\ txRing' = addToRingBuffer(txRing, msg)
     /\ written' = msg
     /\ UNCHANGED <<code, content>>
  \/ /\ FreeBoxes = {} /\ isRingBufferFull(txRing)
     /\ UNCHANGED <<txRing, code, content, written>>

\* CanIface::send(): nothing looks at the deadline after this.
send ==
  /\ ~isr /\ written < MaxTx
  /\ write(written + 1)
  /\ UNCHANGED <<rxRing, iflag, interrupt, slow, arrived, sent, got, lost>>

\* CanIface::receive(), FlexCAN::read().
receive ==
  /\ ~isr /\ ~isRingBufferEmpty(rxRing)
  /\ got' = Append(got, oldest(rxRing))
  /\ rxRing' = removeFromRingBuffer(rxRing)
  /\ UNCHANGED <<txRing, boxes, interrupt, slow, written, arrived, sent, lost>>

-----------------------------------------------------------------------------
(* message_isr().                                                           *)

EnterIsr ==
  /\ ~isr /\ iflag # {}
  /\ isr' = TRUE
  /\ status' = iflag /\ todo' = iflag
  /\ UNCHANGED <<rings, boxes, history>>

\* readRxRegisters() and the receive ring; the mailbox is free again.  The
\* loss is not counted: no call of startStats() is in the code.
IsrReceive(m) ==
  /\ code[m] \in {"RX_FULL", "RX_OVERRUN"}
  /\ IF ~isRingBufferFull(rxRing)
     THEN rxRing' = addToRingBuffer(rxRing, content[m]) /\ UNCHANGED lost
     ELSE lost' = lost \cup {content[m]} /\ UNCHANGED rxRing
  /\ code' = [code EXCEPT ![m] = "RX_EMPTY"]
  /\ UNCHANGED <<txRing, content>>

\* Mutant: the mailbox is not filled again.
IsrTransmit_NoRefill(m) ==
  /\ code[m] = "TX_INACTIVE"
  /\ UNCHANGED <<rings, code, content, lost>>

IsrTransmit(m) ==
  /\ code[m] = "TX_INACTIVE"
  /\ IF ~isRingBufferEmpty(txRing)
     THEN /\ writeTxRegisters(oldest(txRing), m)
          /\ txRing' = removeFromRingBuffer(txRing)
     ELSE UNCHANGED <<txRing, code, content>>
  /\ UNCHANGED <<rxRing, lost>>

IsrIgnore(m) ==
  /\ code[m] \in {"RX_EMPTY", "TX_ONCE"}
  /\ UNCHANGED <<rings, code, content, lost>>

IsrStep ==
  /\ isr
  /\ \E m \in First(todo) :
       /\ IsrReceive(m) \/ IsrTransmit(m) \/ IsrIgnore(m)
       /\ todo' = todo \ {m}
  /\ UNCHANGED <<iflag, isr, status, slow, written, arrived, sent, got>>

\* Mutant: IFLAG1 is cleared as a whole.
ExitIsr_ClearsAll ==
  /\ isr /\ todo = {}
  /\ iflag' = {}
  /\ isr' = FALSE /\ status' = {} /\ UNCHANGED todo
  /\ UNCHANGED <<rings, code, content, history>>

\* IFLAG1 = status clears the bits that were set on entry.
ExitIsr ==
  /\ isr /\ todo = {}
  /\ iflag' = iflag \ status
  /\ isr' = FALSE /\ status' = {} /\ UNCHANGED todo
  /\ UNCHANGED <<rings, code, content, history>>

message_isr == EnterIsr \/ IsrStep \/ ExitIsr

-----------------------------------------------------------------------------
(* The controller and the bus (external).  A frame takes at least 47 bit    *)
(* times.  message_isr() is usually done before the mailbox that it refills *)
(* ends another frame, and before a frame arrives: slow remembers that it   *)
(* once was not.                                                            *)

TxDone(m) ==
  /\ code[m] = "TX_ONCE"
  /\ code' = [code EXCEPT ![m] = "TX_INACTIVE"]
  /\ iflag' = iflag \cup {m}
  /\ sent' = Append(sent, content[m])
  /\ slow' = (slow \/ m \in status)
  /\ UNCHANGED <<rings, content, interrupt, written, arrived, got, lost>>

\* The first free receive mailbox takes the frame; when there is none the
\* last one is overwritten.
RxArrive ==
  /\ arrived < MaxRx
  /\ arrived' = arrived + 1
  /\ LET free == {m \in RxBox : code[m] = "RX_EMPTY"} IN
     \E m \in IF free # {} THEN First(free) ELSE {NumMailBoxes - numTxMailboxes - 1} :
       /\ content' = [content EXCEPT ![m] = arrived + 1]
       /\ code' = [code EXCEPT ![m] = IF free # {} THEN "RX_FULL" ELSE "RX_OVERRUN"]
       /\ iflag' = iflag \cup {m}
       /\ lost' = IF free # {} THEN lost ELSE lost \cup {content[m]}
  /\ slow' = (slow \/ isr)
  /\ UNCHANGED <<rings, interrupt, written, sent, got>>

Next ==
  \/ send \/ receive \/ message_isr
  \/ \E m \in TxBox : TxDone(m)
  \/ RxArrive

Spec == Init /\ [][Next]_vars

(***************************************************************************)
(* An interrupt that is pending is served and comes to its end; the bus    *)
(* does not stay busy with other nodes' frames for ever.                   *)
(***************************************************************************)
FairSpec ==
  /\ Spec
  /\ WF_vars(message_isr)
  /\ \A m \in TxBox : WF_vars(TxDone(m))

-----------------------------------------------------------------------------
(* Properties.                                                              *)

\* Every variable stays in its type; in particular the ring indices stay in
\* the buffers.
TypeOK ==
  /\ txRing \in Rings(sizeTxBuffer, Frame)
  /\ rxRing \in Rings(sizeRxBuffer, Frame)
  /\ code \in [MailBox -> Code]
  /\ \A m \in MailBox : code[m] \in {"TX_INACTIVE", "TX_ONCE"} <=> m \in TxBox
  /\ content \in [MailBox -> Frame]
  /\ iflag \subseteq MailBox /\ status \subseteq iflag /\ todo \subseteq status
  /\ isr \in BOOLEAN /\ slow \in BOOLEAN
  /\ written \in 0 .. MaxTx /\ arrived \in 0 .. MaxRx

\* A frame that waits in the ring has somebody to fetch it: a mailbox that
\* is still transmitting, or one whose interrupt is not yet served.  write()
\* never looks for a free mailbox again while the ring is not empty, so
\* without this the transmitter would be dead.
TxNeverStalls ==
  ~slow /\ ~isRingBufferEmpty(txRing) =>
     \E m \in TxBox :
       \/ code[m] = "TX_ONCE"
       \/ m \in iflag \ status
       \/ m \in todo

\* Frames are read in the order in which they arrived, none twice, and each
\* one that was not lost is read or still on its way.
RxInOrder ==
  ~slow =>
    /\ \A j, k \in 1 .. Len(got) : j < k => got[j] < got[k]
    /\ \A n \in 1 .. arrived :
         \/ n \in lost
         \/ \E k \in 1 .. Len(got) : got[k] = n
         \/ \E k \in 1 .. ringBufferCount(rxRing) : entries(rxRing)[k] = n
         \/ \E m \in RxBox : code[m] # "RX_EMPTY" /\ content[m] = n

\* The frames that write() took and the bus has not seen.
Boxed == {content[m] : m \in {b \in TxBox : code[b] = "TX_ONCE"}}
Buffered == {entries(txRing)[k] : k \in 1 .. ringBufferCount(txRing)}

Tx == INSTANCE TxWindow WITH
        Window <- numTxMailboxes,
        accepted <- written, pending <- Boxed \cup Buffered, sent <- sent

\* write(), message_isr() and the rings implement the window: no accepted
\* frame is lost or doubled on its way, none overtakes more than the other
\* mailboxes' frames, and with one mailbox none overtakes at all.
TxIsWindow == Tx!Spec

\* A frame that write() accepted is sent, unless a mailbox was refilled and
\* done while message_isr() ran.
AcceptedIsSent ==
  \A n \in 1 .. MaxTx :
    written >= n ~> slow \/ \E k \in 1 .. Len(sent) : sent[k] = n
=============================================================================
