--------------------------- MODULE FlexCan_proofs ---------------------------
(***************************************************************************)
(* For every number of mailboxes and every ring size: the types of the     *)
(* driver's state, that its transmitter never stalls, and that frames are  *)
(* read in the order in which they arrive.                                 *)
(***************************************************************************)
EXTENDS FlexCan, CanRing_proofs, FiniteSetTheorems

USE FlexCanAssumption

\* Outside message_isr() its local variables are unused.
Quiet == ~isr => status = {}

IInv == TypeOK /\ Quiet /\ TxNeverStalls

LEMMA Boxes ==
  /\ TxBox \subseteq MailBox /\ RxBox \subseteq MailBox
  /\ TxBox \cap RxBox = {}
  /\ NumMailBoxes - 1 \in TxBox
  /\ NumMailBoxes - numTxMailboxes - 1 \in RxBox
BY DEF MailBox, TxBox, RxBox

LEMMA Frames == NoFrame \in Frame
BY DEF NoFrame, Frame

(* A ring as it is initialised is a ring, and it is empty. *)
LEMMA InitType ==
  ASSUME NEW size \in Nat \ {0}, NEW Msg, NEW msg \in Msg
  PROVE  /\ initRingBuffer(size, msg) \in Rings(size, Msg)
         /\ isRingBufferEmpty(initRingBuffer(size, msg))
BY DEF initRingBuffer, Rings, isRingBufferEmpty

LEMMA InitInv == Init => IInv
<1> SUFFICES ASSUME Init PROVE IInv
  OBVIOUS
<1>1. txRing \in Rings(sizeTxBuffer, Frame) /\ isRingBufferEmpty(txRing)
  BY Frames, InitType DEF Init
<1>2. rxRing \in Rings(sizeRxBuffer, Frame)
  BY Frames, InitType DEF Init
<1>3. code \in [MailBox -> Code] /\ content \in [MailBox -> Frame]
  BY Frames DEF Init, Code
<1>4. \A m \in MailBox : code[m] \in {"TX_INACTIVE", "TX_ONCE"} <=> m \in TxBox
  BY Boxes DEF Init
<1>5. /\ iflag \subseteq MailBox /\ status \subseteq iflag /\ todo \subseteq status
      /\ isr \in BOOLEAN /\ slow \in BOOLEAN
      /\ written \in 0 .. MaxTx /\ arrived \in 0 .. MaxRx
  <2>1. iflag = {} /\ isr = FALSE /\ slow = FALSE /\ status = {} /\ todo = {}
    BY DEF Init
  <2>2. written = 0 /\ arrived = 0
    BY DEF Init
  <2>3. written \in 0 .. MaxTx /\ arrived \in 0 .. MaxRx
    BY <2>2
  <2>4. QED
    BY <2>1, <2>3, Zenon
<1>6. TypeOK
  BY <1>1, <1>2, <1>3, <1>4, <1>5 DEF TypeOK
<1>7. QED
  <2>1. Quiet /\ TxNeverStalls
    BY <1>1 DEF Quiet, TxNeverStalls, Init
  <2>2. QED
    BY <1>6, <2>1 DEF IInv

(* What writeTxRegisters() does to a transmit mailbox. *)
LEMMA WriteTx ==
  ASSUME TypeOK, NEW msg \in Frame, NEW m \in TxBox, writeTxRegisters(msg, m)
  PROVE  /\ code' \in [MailBox -> Code] /\ content' \in [MailBox -> Frame]
         /\ \A b \in MailBox : code'[b] \in {"TX_INACTIVE", "TX_ONCE"} <=> b \in TxBox
         /\ code'[m] = "TX_ONCE"
BY Boxes DEF TypeOK, writeTxRegisters, Code

LEMMA SendInv == IInv /\ send => IInv'
<1> SUFFICES ASSUME IInv, send PROVE IInv'
  OBVIOUS
<1> USE DEF IInv
<1> DEFINE msg == written + 1
<1>1. write(msg)
  BY DEF send
<1>2. msg \in Frame /\ written + 1 \in 0 .. MaxTx
  BY DEF send, TypeOK, Frame
<1>3. status = {} /\ UNCHANGED <<rxRing, iflag, isr, status, todo, slow, arrived>>
  BY DEF send, Quiet, interrupt
<1>4. msg = written + 1
  OBVIOUS
<1> HIDE DEF msg
<1>5. CASE /\ FreeBoxes # {}
           /\ \E m \in First(FreeBoxes) : writeTxRegisters(msg, m)
           /\ written' = msg
           /\ UNCHANGED txRing
  <2>1. PICK m \in TxBox : writeTxRegisters(msg, m) /\ isRingBufferEmpty(txRing)
    BY <1>5 DEF First, FreeBoxes
  <2>2. TypeOK'
    BY <1>2, <1>3, <1>4, <1>5, <2>1, WriteTx DEF TypeOK
  <2>3. TxNeverStalls'
    BY <1>5, <2>1 DEF TxNeverStalls
  <2>4. QED
    BY <1>3, <2>2, <2>3 DEF Quiet
<1>6. CASE /\ FreeBoxes = {} /\ ~isRingBufferFull(txRing)
           /\ txRing' = addToRingBuffer(txRing, msg)
           /\ written' = msg
           /\ UNCHANGED <<code, content>>
  <2>1. txRing' \in Rings(sizeTxBuffer, Frame)
    BY <1>2, <1>6, AddType DEF TypeOK
  <2>2. TypeOK'
    BY <1>2, <1>3, <1>4, <1>6, <2>1 DEF TypeOK
  <2>3. TxNeverStalls'
    <3>1. CASE isRingBufferEmpty(txRing)
      <4>1. code[NumMailBoxes - 1] = "TX_ONCE"
        BY <1>6, <3>1, Boxes DEF FreeBoxes, TypeOK
      <4>2. QED
        BY <1>6, <4>1, Boxes DEF TxNeverStalls
    <3>2. CASE ~isRingBufferEmpty(txRing)
      BY <1>3, <1>6, <3>2 DEF TxNeverStalls
    <3>3. QED
      BY <3>1, <3>2
  <2>4. QED
    BY <1>3, <2>2, <2>3 DEF Quiet
<1>7. CASE UNCHANGED <<txRing, code, content, written>>
  BY <1>3, <1>7 DEF TypeOK, Quiet, TxNeverStalls
<1>8. QED
  BY <1>1, <1>5, <1>6, <1>7 DEF write, msg

LEMMA ReceiveInv == IInv /\ receive => IInv'
<1> SUFFICES ASSUME IInv, receive PROVE IInv'
  OBVIOUS
<1>1. rxRing' \in Rings(sizeRxBuffer, Frame)
  BY RemoveType DEF IInv, TypeOK, receive
<1>2. UNCHANGED <<txRing, code, content, iflag, isr, status, todo, slow, written, arrived>>
  BY DEF receive, boxes, interrupt
<1>3. QED
  BY <1>1, <1>2 DEF IInv, TypeOK, Quiet, TxNeverStalls

LEMMA EnterInv == IInv /\ EnterIsr => IInv'
<1> SUFFICES ASSUME IInv, EnterIsr PROVE IInv'
  OBVIOUS
<1>1. /\ status = {} /\ isr' = TRUE /\ status' = iflag /\ todo' = iflag
      /\ UNCHANGED <<txRing, rxRing, code, content, iflag, slow, written, arrived>>
  BY DEF EnterIsr, IInv, Quiet, rings, boxes, history
<1>2. TypeOK'
  BY <1>1 DEF IInv, TypeOK
<1>3. TxNeverStalls'
  <2> SUFFICES ASSUME ~slow', ~isRingBufferEmpty(txRing')
               PROVE  \E m \in TxBox : code'[m] = "TX_ONCE" \/ m \in todo'
    BY DEF TxNeverStalls
  <2> QED
    BY <1>1 DEF IInv, TypeOK, TxNeverStalls
<1>4. QED
  BY <1>1, <1>2, <1>3 DEF IInv, Quiet

LEMMA ExitInv == IInv /\ ExitIsr => IInv'
<1> SUFFICES ASSUME IInv, ExitIsr PROVE IInv'
  OBVIOUS
<1>1. /\ todo = {} /\ isr' = FALSE /\ status' = {} /\ todo' = {}
      /\ iflag' = iflag \ status
      /\ UNCHANGED <<txRing, rxRing, code, content, slow, written, arrived>>
  BY DEF ExitIsr, rings, history
<1>2. TypeOK'
  BY <1>1 DEF IInv, TypeOK
<1>3. TxNeverStalls'
  BY <1>1 DEF IInv, TxNeverStalls
<1>4. QED
  BY <1>1, <1>2, <1>3 DEF IInv, Quiet

\* One mailbox of message_isr().
LEMMA StepInv == IInv /\ IsrStep => IInv'
<1> SUFFICES ASSUME IInv, IsrStep PROVE IInv'
  OBVIOUS
<1>1. PICK m \in MailBox :
        /\ m \in todo /\ todo' = todo \ {m}
        /\ IsrReceive(m) \/ IsrTransmit(m) \/ IsrIgnore(m)
  BY DEF IsrStep, First, IInv, TypeOK
<1>2. isr /\ UNCHANGED <<iflag, isr, status, slow, written, arrived>>
  BY DEF IsrStep
<1>3. Quiet'
  BY <1>2 DEF Quiet
<1>4. CASE IsrReceive(m)
  <2>1. m \notin TxBox /\ code' = [code EXCEPT ![m] = "RX_EMPTY"]
    BY <1>4 DEF IsrReceive, IInv, TypeOK
  <2>2. UNCHANGED <<txRing, content>>
    BY <1>4 DEF IsrReceive
  <2>3. rxRing' \in Rings(sizeRxBuffer, Frame)
    BY <1>4, AddType DEF IsrReceive, IInv, TypeOK
  <2>4. /\ code' \in [MailBox -> Code]
        /\ \A b \in MailBox : code'[b] \in {"TX_INACTIVE", "TX_ONCE"} <=> b \in TxBox
    BY <2>1 DEF IInv, TypeOK, Code
  <2>5. TypeOK'
    BY <1>1, <1>2, <2>2, <2>3, <2>4 DEF IInv, TypeOK
  <2>6. TxNeverStalls'
    BY <1>1, <1>2, <2>1, <2>2, Boxes DEF IInv, TypeOK, TxNeverStalls
  <2>7. QED
    BY <1>3, <2>5, <2>6 DEF IInv
<1>5. CASE IsrTransmit(m)
  <2>1. m \in TxBox /\ UNCHANGED rxRing
    BY <1>1, <1>5 DEF IsrTransmit, IInv, TypeOK
  <2>2. CASE ~isRingBufferEmpty(txRing)
    <3>1. /\ writeTxRegisters(oldest(txRing), m)
          /\ txRing' = removeFromRingBuffer(txRing)
      BY <1>5, <2>2 DEF IsrTransmit
    <3>2. txRing' \in Rings(sizeTxBuffer, Frame) /\ oldest(txRing) \in Frame
      BY <3>1, RemoveType DEF IInv, TypeOK
    <3>3. TypeOK'
      BY <1>1, <1>2, <2>1, <3>1, <3>2, WriteTx DEF IInv, TypeOK
    <3>4. TxNeverStalls'
      BY <2>1, <3>1, <3>2, WriteTx DEF IInv, TxNeverStalls
    <3>5. QED
      BY <1>3, <3>3, <3>4 DEF IInv
  <2>3. CASE isRingBufferEmpty(txRing)
    <3>1. UNCHANGED <<txRing, code, content>>
      BY <1>5, <2>3 DEF IsrTransmit
    <3>2. TypeOK'
      BY <1>1, <1>2, <2>1, <3>1 DEF IInv, TypeOK
    <3>3. QED
      BY <1>3, <2>3, <3>1, <3>2 DEF IInv, TxNeverStalls
  <2>4. QED
    BY <2>2, <2>3
<1>6. CASE IsrIgnore(m)
  <2>1. UNCHANGED <<txRing, rxRing, code, content>>
    BY <1>6 DEF IsrIgnore, rings
  <2>2. TypeOK'
    BY <1>1, <1>2, <2>1 DEF IInv, TypeOK
  <2>3. m \in TxBox => code[m] = "TX_ONCE"
    BY <1>6 DEF IsrIgnore, IInv, TypeOK
  <2>4. TxNeverStalls'
    BY <1>1, <1>2, <2>1, <2>3 DEF IInv, TxNeverStalls
  <2>5. QED
    BY <1>3, <2>2, <2>4 DEF IInv
<1>7. QED
  BY <1>1, <1>4, <1>5, <1>6

LEMMA TxDoneInv == IInv /\ (\E m \in TxBox : TxDone(m)) => IInv'
<1> SUFFICES ASSUME IInv, NEW m \in TxBox, TxDone(m) PROVE IInv'
  OBVIOUS
<1>1. /\ slow' = (slow \/ m \in status)
      /\ code' = [code EXCEPT ![m] = "TX_INACTIVE"]
      /\ iflag' = iflag \cup {m}
      /\ UNCHANGED <<txRing, rxRing, content, isr, status, todo, written, arrived>>
  BY DEF TxDone, rings, interrupt
<1>2. /\ code' \in [MailBox -> Code]
      /\ \A b \in MailBox : code'[b] \in {"TX_INACTIVE", "TX_ONCE"} <=> b \in TxBox
  BY <1>1, Boxes DEF IInv, TypeOK, Code
<1>3. TypeOK'
  BY <1>1, <1>2, Boxes DEF IInv, TypeOK
<1>4. TxNeverStalls'
  BY <1>1 DEF TxNeverStalls
<1>5. QED
  BY <1>1, <1>3, <1>4 DEF IInv, Quiet

LEMMA RxArriveInv == IInv /\ RxArrive => IInv'
<1> SUFFICES ASSUME IInv, RxArrive PROVE IInv'
  OBVIOUS
<1> DEFINE msg == arrived + 1
<1>1. PICK m \in RxBox, c \in {"RX_FULL", "RX_OVERRUN"} :
        /\ content' = [content EXCEPT ![m] = msg]
        /\ code' = [code EXCEPT ![m] = c]
        /\ iflag' = iflag \cup {m}
  <2> DEFINE free == {b \in RxBox : code[b] = "RX_EMPTY"}
  <2>1. PICK m \in IF free # {} THEN First(free) ELSE {NumMailBoxes - numTxMailboxes - 1} :
          /\ content' = [content EXCEPT ![m] = msg]
          /\ code' = [code EXCEPT ![m] = IF free # {} THEN "RX_FULL" ELSE "RX_OVERRUN"]
          /\ iflag' = iflag \cup {m}
    BY DEF RxArrive
  <2>2. m \in RxBox
    BY Boxes DEF First
  <2>3. QED
    BY <2>1, <2>2
<1>2. /\ arrived < MaxRx /\ arrived' = arrived + 1 /\ slow' = (slow \/ isr)
      /\ UNCHANGED <<txRing, rxRing, isr, status, todo, written>>
  BY DEF RxArrive, rings, interrupt
<1>3. msg \in Frame /\ arrived' \in 0 .. MaxRx
  BY <1>2 DEF IInv, TypeOK, Frame
<1> HIDE DEF msg
<1>4. /\ code' \in [MailBox -> Code] /\ content' \in [MailBox -> Frame]
      /\ \A b \in MailBox : code'[b] \in {"TX_INACTIVE", "TX_ONCE"} <=> b \in TxBox
      /\ \A b \in TxBox : code'[b] = code[b]
  BY <1>1, <1>3, Boxes DEF IInv, TypeOK, Code
<1>5. TypeOK'
  BY <1>1, <1>2, <1>3, <1>4, Boxes DEF IInv, TypeOK
<1>6. TxNeverStalls'
  BY <1>1, <1>2, <1>4 DEF IInv, TxNeverStalls
<1>7. QED
  BY <1>2, <1>5, <1>6 DEF IInv, Quiet

LEMMA StutterInv == IInv /\ UNCHANGED vars => IInv'
BY DEF vars, rings, boxes, interrupt, history, IInv, TypeOK, Quiet, TxNeverStalls

THEOREM Invariance == Spec => []IInv
<1>1. IInv /\ [Next]_vars => IInv'
  BY SendInv, ReceiveInv, EnterInv, StepInv, ExitInv, TxDoneInv, RxArriveInv,
     StutterInv DEF Next, message_isr
<1>2. QED
  BY <1>1, InitInv, PTL DEF Spec

(* Rings, mailboxes and interrupt state keep their types, however slow      *)
(* message_isr() is: the indices of FlexCAN.cpp stay inside the buffers.    *)
THEOREM TypeCorrect == Spec => []TypeOK
<1>1. IInv => TypeOK
  BY DEF IInv
<1>2. QED
  BY <1>1, Invariance, PTL

(* message_isr() and write() of FlexCAN.cpp: a frame in the transmit ring   *)
(* always has a mailbox or a pending interrupt that will fetch it, provided *)
(* that message_isr() ends before the next frame of the mailbox does.       *)
THEOREM NoStall == Spec => []TxNeverStalls
<1>1. IInv => TxNeverStalls
  BY DEF IInv
<1>2. QED
  BY <1>1, Invariance, PTL

-----------------------------------------------------------------------------
(***************************************************************************)
(* The transmit side implements TxWindow.  The frames of the ring are in   *)
(* ascending order and above those of the mailboxes, which differ: so a    *)
(* frame leaves one place only, and only frames of other mailboxes are     *)
(* older than the one that is sent.                                        *)
(***************************************************************************)
Busy == {b \in TxBox : code[b] = "TX_ONCE"}

Ascending ==
  /\ \A b \in Busy : content[b] <= written
  /\ \A b, d \in Busy : content[b] = content[d] => b = d
  /\ \A k \in 1 .. Len(entries(txRing)) : entries(txRing)[k] <= written
  /\ \A j, k \in 1 .. Len(entries(txRing)) :
       j < k => entries(txRing)[j] < entries(txRing)[k]
  /\ \A b \in Busy, k \in 1 .. Len(entries(txRing)) :
       content[b] < entries(txRing)[k]

Waiting == Boxed \cup Buffered

(* entries(txRing) is a sequence of frame numbers, and Buffered its range. *)
LEMMA TxEntries ==
  ASSUME TypeOK
  PROVE  /\ entries(txRing) \in Seq(Frame)
         /\ Len(entries(txRing)) = ringBufferCount(txRing)
         /\ Buffered = {entries(txRing)[k] : k \in 1 .. Len(entries(txRing))}
         /\ isRingBufferEmpty(txRing) <=> Len(entries(txRing)) = 0
<1>1. txRing \in Rings(sizeTxBuffer, Frame)
  BY DEF TypeOK
<1>2. /\ entries(txRing) \in Seq(Frame)
      /\ Len(entries(txRing)) = ringBufferCount(txRing)
  BY <1>1, EntriesType
<1>3. isRingBufferEmpty(txRing) <=> ringBufferCount(txRing) = 0
  BY <1>1, CountType
<1>4. QED
  BY <1>2, <1>3 DEF Buffered

LEMMA BoxedIs == Boxed = {content[b] : b \in Busy}
BY DEF Boxed, Busy

(* A step that leaves the ring and the transmit mailboxes alone.           *)
LEMMA TxSame ==
  ASSUME UNCHANGED <<txRing, written>>,
         \A b \in TxBox : code'[b] = "TX_ONCE" <=> code[b] = "TX_ONCE",
         \A b \in Busy : content'[b] = content[b]
  PROVE  Busy' = Busy /\ Boxed' = Boxed /\ Buffered' = Buffered /\ Waiting' = Waiting
<1>1. Busy' = Busy
  BY DEF Busy
<1>2. Buffered' = Buffered
  BY DEF Buffered
<1>3. Boxed' = Boxed
  BY <1>1 DEF Boxed, Busy
<1>4. QED
  BY <1>1, <1>2, <1>3 DEF Waiting

LEMMA AscendingSame ==
  ASSUME Ascending, UNCHANGED <<txRing, written>>, Busy' = Busy,
         \A b \in Busy : content'[b] = content[b]
  PROVE  Ascending'
BY DEF Ascending

(* writeTxRegisters() makes a mailbox busy with its frame.                 *)
LEMMA WriteBusy ==
  ASSUME TypeOK, NEW msg, NEW m \in TxBox, code[m] = "TX_INACTIVE",
         writeTxRegisters(msg, m)
  PROVE  /\ Busy' = Busy \cup {m} /\ m \notin Busy
         /\ content'[m] = msg /\ \A b \in Busy : content'[b] = content[b]
         /\ Boxed' = Boxed \cup {msg}
<1>1. /\ code' = [code EXCEPT ![m] = "TX_ONCE"]
      /\ content' = [content EXCEPT ![m] = msg]
      /\ DOMAIN code = MailBox /\ DOMAIN content = MailBox
      /\ m \in MailBox
  BY Boxes DEF writeTxRegisters, TypeOK
<1>2. Busy' = Busy \cup {m} /\ m \notin Busy
  BY <1>1, Boxes DEF Busy
<1>3. content'[m] = msg /\ \A b \in Busy : content'[b] = content[b]
  BY <1>1, <1>2, Boxes DEF Busy
<1>4. Boxed' = {content'[b] : b \in Busy'}
  BY DEF Boxed, Busy
<1>5. QED
  BY <1>2, <1>3, <1>4, BoxedIs

\* What a step does to the abstract buffer, and that it keeps the order.
Goal == Ascending' /\ [Tx!Next]_(Tx!vars)

LEMMA SendRefines == TypeOK /\ Ascending /\ send => Goal
<1> SUFFICES ASSUME TypeOK, Ascending, send PROVE Goal
  OBVIOUS
<1> DEFINE msg == written + 1
<1>0. written \in Nat /\ msg \in Frame /\ UNCHANGED sent
  BY DEF send, TypeOK, Frame
<1>1. CASE /\ FreeBoxes # {}
           /\ \E m \in First(FreeBoxes) : writeTxRegisters(msg, m)
           /\ written' = msg
           /\ UNCHANGED txRing
  <2>1. PICK m \in TxBox : /\ writeTxRegisters(msg, m) /\ code[m] = "TX_INACTIVE"
                           /\ isRingBufferEmpty(txRing)
    BY <1>1 DEF First, FreeBoxes
  <2>2. /\ Busy' = Busy \cup {m} /\ m \notin Busy
        /\ content'[m] = msg /\ \A b \in Busy : content'[b] = content[b]
        /\ Boxed' = Boxed \cup {msg}
    BY <2>1, WriteBusy
  <2>3. Len(entries(txRing)) = 0 /\ Buffered' = Buffered
    BY <1>1, <2>1, TxEntries DEF Buffered
  <2>4. \A b \in Busy : content[b] \in Nat
    BY Boxes DEF Busy, TypeOK, Frame
  <2>5. Ascending'
    BY <1>0, <1>1, <2>2, <2>3, <2>4 DEF Ascending
  <2>6. Waiting' = Waiting \cup {msg}
    BY <2>2, <2>3 DEF Waiting
  <2>7. QED
    BY <1>0, <1>1, <2>5, <2>6 DEF Goal, Tx!Next, Tx!Accept, Waiting
<1>2. CASE /\ FreeBoxes = {} /\ ~isRingBufferFull(txRing)
           /\ txRing' = addToRingBuffer(txRing, msg)
           /\ written' = msg
           /\ UNCHANGED <<code, content>>
  <2>1. Busy' = Busy /\ Boxed' = Boxed
    BY <1>2 DEF Busy, Boxed
  <2>2. entries(txRing)' = Append(entries(txRing), msg)
    BY <1>0, <1>2, AddAppends DEF TypeOK
  <2> DEFINE E == entries(txRing)
  <2>3. E \in Seq(Frame)
    BY TxEntries
  <2>4. /\ Len(E') = Len(E) + 1 /\ E'[Len(E) + 1] = msg
        /\ \A k \in 1 .. Len(E) : E'[k] = E[k] /\ E[k] \in Frame
        /\ Len(E) \in Nat
    BY <1>0, <2>2, <2>3
  <2>5. Buffered = {E[k] : k \in 1 .. Len(E)}
    BY TxEntries
  <2>6. Buffered' = {E'[k] : k \in 1 .. Len(E')}
    <3>1. txRing' \in Rings(sizeTxBuffer, Frame)
      BY <1>0, <1>2, AddType DEF TypeOK
    <3>2. Len(entries(txRing')) = ringBufferCount(txRing')
      BY <3>1, EntriesType
    <3>3. QED
      BY <3>2 DEF Buffered
  <2>7. \A b \in Busy : content[b] \in Nat
    BY Boxes DEF Busy, TypeOK, Frame
  <2>8. Ascending'
    <3>1. /\ \A b \in Busy : content[b] <= written
          /\ \A b, d \in Busy : content[b] = content[d] => b = d
          /\ \A k \in 1 .. Len(E) : E[k] <= written
          /\ \A j, k \in 1 .. Len(E) : j < k => E[j] < E[k]
          /\ \A b \in Busy, k \in 1 .. Len(E) : content[b] < E[k]
      BY DEF Ascending
    <3> HIDE DEF E
    <3>2. /\ \A b \in Busy : content'[b] <= written'
          /\ \A b, d \in Busy : content'[b] = content'[d] => b = d
      BY <1>0, <1>2, <2>7, <3>1
    <3>3. \A k \in 1 .. Len(E') : E'[k] <= written'
      BY <1>0, <1>2, <2>4, <3>1 DEF Frame
    <3>4. ASSUME NEW j \in 1 .. Len(E'), NEW k \in 1 .. Len(E'), j < k
          PROVE  E'[j] < E'[k]
      <4>1. j \in 1 .. Len(E) /\ E'[j] = E[j] /\ E[j] <= written /\ E[j] \in Nat
        BY <2>4, <3>1, <3>4 DEF Frame
      <4>2. CASE k = Len(E) + 1
        BY <1>0, <2>4, <4>1, <4>2
      <4>3. CASE k \in 1 .. Len(E)
        BY <2>4, <3>1, <3>4, <4>1, <4>3
      <4>4. QED
        BY <2>4, <4>2, <4>3
    <3>5. \A b \in Busy, k \in 1 .. Len(E') : content'[b] < E'[k]
      BY <1>0, <1>2, <2>4, <2>7, <3>1 DEF Frame
    <3>6. QED
      BY <2>1, <3>2, <3>3, <3>4, <3>5 DEF Ascending, E
  <2>9. Buffered' = Buffered \cup {msg}
    <3> HIDE DEF E
    <3> QED
      BY <2>4, <2>5, <2>6
  <2>10. Waiting' = Waiting \cup {msg}
    BY <2>1, <2>9 DEF Waiting
  <2>11. QED
    BY <1>0, <1>2, <2>8, <2>10 DEF Goal, Tx!Next, Tx!Accept, Waiting
<1>3. CASE UNCHANGED <<txRing, code, content, written>>
  <2>1. Busy' = Busy /\ Boxed' = Boxed /\ Buffered' = Buffered
    BY <1>3 DEF Busy, Boxed, Buffered
  <2>2. QED
    BY <1>0, <1>3, <2>1, AscendingSame DEF Goal, Tx!vars
<1>4. QED
  BY <1>1, <1>2, <1>3 DEF send, write

(* message_isr() refills a mailbox: the frame changes places.              *)
LEMMA TransmitRefines ==
  ASSUME TypeOK, Ascending, NEW m \in TxBox, IsrTransmit(m), UNCHANGED <<written, sent>>
  PROVE  Goal
<1>1. CASE ~isRingBufferEmpty(txRing)
  <2> DEFINE E == entries(txRing)
  <2>1. /\ writeTxRegisters(oldest(txRing), m) /\ code[m] = "TX_INACTIVE"
        /\ txRing' = removeFromRingBuffer(txRing)
    BY <1>1 DEF IsrTransmit
  <2>2. oldest(txRing) = Head(E) /\ E' = Tail(E)
    BY <1>1, <2>1, RemoveTakesFirst DEF TypeOK
  <2>3. E \in Seq(Frame) /\ Len(E) # 0
    BY <1>1, TxEntries
  <2>4. /\ Len(E) \in Nat \ {0} /\ Len(E') = Len(E) - 1
        /\ oldest(txRing) = E[1]
        /\ \A k \in 1 .. Len(E') : E'[k] = E[k + 1]
        /\ \A k \in 1 .. Len(E) : E[k] \in Nat
    <3> HIDE DEF E
    <3> QED
      BY <2>2, <2>3 DEF Frame
  <2>5. /\ Busy' = Busy \cup {m} /\ m \notin Busy
        /\ content'[m] = E[1] /\ \A b \in Busy : content'[b] = content[b]
        /\ Boxed' = Boxed \cup {E[1]}
    BY <2>1, <2>4, WriteBusy
  <2>6. \A b \in Busy : content[b] \in Nat
    BY Boxes DEF Busy, TypeOK, Frame
  <2>7. /\ \A b \in Busy : content[b] <= written
        /\ \A b, d \in Busy : content[b] = content[d] => b = d
        /\ \A k \in 1 .. Len(E) : E[k] <= written
        /\ \A j, k \in 1 .. Len(E) : j < k => E[j] < E[k]
        /\ \A b \in Busy, k \in 1 .. Len(E) : content[b] < E[k]
    BY DEF Ascending
  <2>8. Buffered = {E[k] : k \in 1 .. Len(E)}
    BY TxEntries
  <2>9. Buffered' = {E'[k] : k \in 1 .. Len(E')}
    <3>1. txRing' \in Rings(sizeTxBuffer, Frame)
      BY <2>1, RemoveType DEF TypeOK
    <3>2. Len(entries(txRing')) = ringBufferCount(txRing')
      BY <3>1, EntriesType
    <3>3. QED
      BY <3>2 DEF Buffered
  <2>10. Ascending'
    <3> HIDE DEF E
    <3>0. /\ 1 \in 1 .. Len(E) /\ Len(E') \in Nat
          /\ \A k \in 1 .. Len(E') : k + 1 \in 1 .. Len(E)
      BY <2>4
    <3>1. /\ \A b \in Busy' : content'[b] <= written
          /\ \A b, d \in Busy' : content'[b] = content'[d] => b = d
      <4>1. \A b \in Busy : content'[b] # content'[m]
        BY <2>4, <2>5, <2>6, <2>7, <3>0
      <4>2. QED
        BY <2>5, <2>7, <3>0, <4>1
    <3>2. /\ \A k \in 1 .. Len(E') : E'[k] <= written
          /\ \A j, k \in 1 .. Len(E') : j < k => E'[j] < E'[k]
      <4>1. \A k \in 1 .. Len(E') : E'[k] <= written
        BY <2>4, <2>7, <3>0
      <4>2. ASSUME NEW j \in 1 .. Len(E'), NEW k \in 1 .. Len(E'), j < k
            PROVE  E'[j] < E'[k]
        <5>1. j + 1 < k + 1
          BY <4>2
        <5>2. E[j + 1] < E[k + 1]
          BY <2>7, <3>0, <5>1
        <5>3. QED
          BY <2>4, <5>2
      <4>3. QED
        BY <4>1, <4>2
    <3>3. ASSUME NEW b \in Busy', NEW k \in 1 .. Len(E')
          PROVE  content'[b] < E'[k]
      <4>1. k + 1 \in 1 .. Len(E) /\ E'[k] = E[k + 1] /\ 1 < k + 1
        BY <2>4, <3>0
      <4>2. CASE b = m
        BY <2>5, <2>7, <3>0, <4>1, <4>2
      <4>3. CASE b \in Busy
        BY <2>5, <2>7, <4>1, <4>3
      <4>4. QED
        BY <2>5, <4>2, <4>3
    <3>4. QED
      BY <3>1, <3>2, <3>3 DEF Ascending, E
  <2>11. Waiting' = Waiting
    <3> HIDE DEF E
    <3>1. \A x : x \in Buffered <=> x = E[1] \/ x \in Buffered'
      <4>1. ASSUME NEW k \in 1 .. Len(E), k # 1
            PROVE  k - 1 \in 1 .. Len(E') /\ E[k] = E'[k - 1]
        <5>1. k - 1 \in 1 .. Len(E')
          BY <2>4, <4>1
        <5>2. E'[k - 1] = E[(k - 1) + 1]
          BY <2>4, <5>1
        <5>3. QED
          BY <5>1, <5>2
      <4>2. \A k \in 1 .. Len(E') : k + 1 \in 1 .. Len(E) /\ E'[k] = E[k + 1]
        BY <2>4
      <4>3. 1 \in 1 .. Len(E)
        BY <2>4
      <4>4. ASSUME NEW x \in Buffered PROVE x = E[1] \/ x \in Buffered'
        <5>1. PICK k \in 1 .. Len(E) : x = E[k]
          BY <2>8
        <5>2. CASE k # 1
          BY <2>9, <4>1, <5>1, <5>2
        <5>3. QED
          BY <5>1, <5>2
      <4>5. ASSUME NEW x \in Buffered' PROVE x \in Buffered
        <5>1. PICK k \in 1 .. Len(E') : x = E'[k]
          BY <2>9
        <5>2. QED
          BY <2>8, <4>2, <5>1
      <4>6. E[1] \in Buffered
        BY <2>8, <4>3
      <4>7. QED
        BY <4>4, <4>5, <4>6
    <3>2. QED
      BY <2>5, <3>1 DEF Waiting
  <2>12. QED
    BY <2>10, <2>11 DEF Goal, Tx!vars, Waiting
<1>2. CASE isRingBufferEmpty(txRing)
  <2>1. UNCHANGED <<txRing, code, content>>
    BY <1>2 DEF IsrTransmit
  <2>2. QED
    BY <2>1, TxSame, AscendingSame DEF Goal, Tx!vars, Waiting
<1>3. QED
  BY <1>1, <1>2

(* Only frames in the other mailboxes are older than the one that is sent. *)
LEMMA FewOlder ==
  ASSUME TypeOK, Ascending, NEW m \in Busy
  PROVE  LET Before == {n \in Waiting : n < content[m]} IN
         Cardinality(Before) \in Nat /\ Cardinality(Before) < numTxMailboxes
<1> DEFINE Before == {n \in Waiting : n < content[m]}
           Others == TxBox \ {m}
           f == [b \in Others |-> content[b]]
           T == {content[b] : b \in Others}
<1>1. IsFiniteSet(TxBox) /\ Cardinality(TxBox) = numTxMailboxes
  <2>1. NumMailBoxes - numTxMailboxes \in Int /\ NumMailBoxes - 1 \in Int
    OBVIOUS
  <2>2. /\ IsFiniteSet(TxBox)
        /\ Cardinality(TxBox)
             = IF NumMailBoxes - numTxMailboxes > NumMailBoxes - 1 THEN 0
               ELSE NumMailBoxes - 1 - (NumMailBoxes - numTxMailboxes) + 1
    BY <2>1, FS_Interval DEF TxBox
  <2>3. QED
    BY <2>2
<1>2. IsFiniteSet(Others) /\ Cardinality(Others) = numTxMailboxes - 1
  BY <1>1, FS_RemoveElement DEF Busy
<1>3. f \in Surjection(Others, T)
  BY DEF Surjection
<1>4. IsFiniteSet(T) /\ Cardinality(T) <= numTxMailboxes - 1 /\ Cardinality(T) \in Nat
  BY <1>2, <1>3, FS_Surjection, FS_CardinalityType
<1>5. Before \in SUBSET T
  <2> SUFFICES ASSUME NEW n \in Before PROVE n \in T
    OBVIOUS
  <2>1. n < content[m] /\ content[m] \in Nat
    BY Boxes DEF Busy, TypeOK, Frame
  <2>2. CASE n \in Boxed
    BY <2>1, <2>2, BoxedIs DEF Busy
  <2>3. CASE n \in Buffered
    <3>1. PICK k \in 1 .. Len(entries(txRing)) : n = entries(txRing)[k]
      BY <2>3, TxEntries
    <3>2. content[m] < n /\ n \in Nat
      BY <3>1, TxEntries DEF Ascending, Frame
    <3>3. QED
      BY <2>1, <3>2
  <2>4. QED
    BY <2>2, <2>3 DEF Waiting
<1>6. Cardinality(Before) <= Cardinality(T) /\ Cardinality(Before) \in Nat
  BY <1>4, <1>5, FS_Subset, FS_CardinalityType
<1>7. QED
  <2> HIDE DEF Before, T
  <2>1. Cardinality(Before) < numTxMailboxes
    BY <1>4, <1>6
  <2>2. QED
    BY <1>6, <2>1 DEF Before

LEMMA DoneRefines ==
  ASSUME TypeOK, Ascending, NEW m \in TxBox, TxDone(m)
  PROVE  Goal
<1>1. /\ code' = [code EXCEPT ![m] = "TX_INACTIVE"] /\ m \in Busy
      /\ sent' = Append(sent, content[m])
      /\ UNCHANGED <<txRing, content, written>>
  BY DEF TxDone, rings, Busy
<1>2. Busy' = Busy \ {m}
  BY <1>1, Boxes DEF Busy, TypeOK
<1>3. Ascending'
  BY <1>1, <1>2 DEF Ascending
<1>4. Buffered' = Buffered /\ content[m] \in Boxed
  BY <1>1, BoxedIs DEF Buffered
<1>5. Boxed' = Boxed \ {content[m]}
  <2>1. Boxed' = {content[b] : b \in Busy \ {m}}
    BY <1>1, <1>2 DEF Boxed, Busy
  <2>2. QED
    BY <1>1, <2>1, BoxedIs DEF Ascending
<1>6. content[m] \notin Buffered
  <2> SUFFICES ASSUME NEW k \in 1 .. Len(entries(txRing)), content[m] = entries(txRing)[k]
               PROVE  FALSE
    BY TxEntries
  <2>1. content[m] < entries(txRing)[k] /\ content[m] \in Nat
    BY <1>1, Boxes DEF Ascending, TypeOK, Frame
  <2>2. QED
    BY <2>1
<1>7. Waiting' = Waiting \ {content[m]}
  BY <1>4, <1>5, <1>6 DEF Waiting
<1>8. Cardinality({n \in Waiting : n < content[m]}) < numTxMailboxes
  BY <1>1, FewOlder
<1>9. Tx!Emit(content[m])
  <2>1. content[m] \in Boxed \cup Buffered
    BY <1>4
  <2>2. Tx!Cardinality(Tx!Older(content[m])) < numTxMailboxes
    BY <1>8, Zenon DEF Tx!Older, Waiting, Cardinality, Tx!Cardinality
  <2>3. Boxed' \cup Buffered' = (Boxed \cup Buffered) \ {content[m]}
    BY <1>7, Zenon DEF Waiting
  <2>4. QED
    BY <1>1, <2>1, <2>2, <2>3 DEF Tx!Emit
<1>10. QED
  BY <1>3, <1>4, <1>9 DEF Goal, Tx!Next, Waiting

(* The rest of Next leaves the ring and the transmit mailboxes alone.      *)
LEMMA OthersRefine ==
  ASSUME TypeOK, Ascending,
         UNCHANGED <<txRing, written, sent>>,
         \A b \in TxBox : code'[b] = code[b] /\ content'[b] = content[b]
  PROVE  Goal
<1>1. /\ \A b \in TxBox : code'[b] = "TX_ONCE" <=> code[b] = "TX_ONCE"
      /\ \A b \in Busy : content'[b] = content[b]
  BY DEF Busy
<1>2. QED
  BY <1>1, TxSame, AscendingSame DEF Goal, Tx!vars, Waiting

LEMMA StepRefines == TypeOK /\ Ascending /\ IsrStep => Goal
<1> SUFFICES ASSUME TypeOK, Ascending, IsrStep PROVE Goal
  OBVIOUS
<1>1. PICK m \in MailBox : IsrReceive(m) \/ IsrTransmit(m) \/ IsrIgnore(m)
  BY DEF IsrStep, First, TypeOK
<1>2. UNCHANGED <<written, sent>>
  BY DEF IsrStep
<1>3. CASE IsrTransmit(m)
  <2>1. m \in TxBox
    BY <1>3 DEF IsrTransmit, TypeOK
  <2>2. QED
    BY <1>2, <1>3, <2>1, TransmitRefines
<1>4. CASE IsrReceive(m)
  <2>1. m \notin TxBox /\ code' = [code EXCEPT ![m] = "RX_EMPTY"]
        /\ UNCHANGED <<txRing, content>>
    BY <1>4 DEF IsrReceive, TypeOK
  <2>2. \A b \in TxBox : code'[b] = code[b] /\ content'[b] = content[b]
    BY <2>1, Boxes DEF TypeOK
  <2>3. QED
    BY <1>2, <2>1, <2>2, OthersRefine
<1>5. CASE IsrIgnore(m)
  BY <1>2, <1>5, OthersRefine DEF IsrIgnore, rings
<1>6. QED
  BY <1>1, <1>3, <1>4, <1>5

LEMMA ArriveRefines == TypeOK /\ Ascending /\ RxArrive => Goal
<1> SUFFICES ASSUME TypeOK, Ascending, RxArrive PROVE Goal
  OBVIOUS
<1> DEFINE free == {b \in RxBox : code[b] = "RX_EMPTY"}
<1>1. PICK m \in IF free # {} THEN First(free) ELSE {NumMailBoxes - numTxMailboxes - 1} :
        /\ content' = [content EXCEPT ![m] = arrived + 1]
        /\ code' = [code EXCEPT ![m] = IF free # {} THEN "RX_FULL" ELSE "RX_OVERRUN"]
  BY DEF RxArrive
<1>2. m \in RxBox
  BY Boxes DEF First
<1>3. \A b \in TxBox : code'[b] = code[b] /\ content'[b] = content[b]
  BY <1>1, <1>2, Boxes DEF TypeOK
<1>4. UNCHANGED <<txRing, written, sent>>
  BY DEF RxArrive, rings
<1>5. QED
  BY <1>3, <1>4, OthersRefine

(* write(), message_isr() and the rings of FlexCAN.cpp: no accepted frame  *)
(* is lost or sent twice, and a frame overtakes those of the other         *)
(* mailboxes only, for any ring size and however slow the interrupt is.    *)
THEOREM WindowRefinement == Spec => TxIsWindow
<1>1. Init => Ascending /\ Tx!Init
  <2> SUFFICES ASSUME Init PROVE Ascending /\ Tx!Init
    OBVIOUS
  <2>1. TypeOK
    BY InitInv DEF IInv
  <2>2. isRingBufferEmpty(txRing)
    BY Frames, InitType DEF Init
  <2>3. Busy = {}
    BY Boxes DEF Init, Busy
  <2>4. Len(entries(txRing)) = 0 /\ Buffered = {} /\ Boxed = {}
    BY <2>1, <2>2, <2>3, TxEntries, BoxedIs
  <2>5. Ascending
    BY <2>3, <2>4 DEF Ascending
  <2>6. QED
    BY <2>4, <2>5 DEF Init, Tx!Init
<1>2. TypeOK /\ Ascending /\ [Next]_vars => Goal
  <2> SUFFICES ASSUME TypeOK, Ascending, [Next]_vars PROVE Goal
    OBVIOUS
  <2>1. CASE receive
    BY <2>1, OthersRefine DEF receive, boxes
  <2>2. CASE EnterIsr \/ ExitIsr \/ UNCHANGED vars
    BY <2>2, OthersRefine DEF EnterIsr, ExitIsr, vars, rings, boxes, history
  <2>3. CASE \E m \in TxBox : TxDone(m)
    BY <2>3, DoneRefines
  <2>4. QED
    BY <2>1, <2>2, <2>3, SendRefines, StepRefines, ArriveRefines DEF Next, message_isr
<1>3. QED
  BY <1>1, <1>2, TypeCorrect, PTL DEF Spec, Goal, TxIsWindow, Tx!Spec
-----------------------------------------------------------------------------
(***************************************************************************)
(* The receive side.  Taken is what was read and what waits in the ring,   *)
(* as one sequence: reading leaves it alone, and message_isr() appends the *)
(* oldest frame of the mailboxes, because they are filled and emptied from *)
(* the first on and nothing arrives while they are emptied.                *)
(***************************************************************************)
Taken == got \o entries(rxRing)
Filed == {m \in RxBox : code[m] # "RX_EMPTY"}

FiledInv ==
  /\ isr => Filed \subseteq todo
  /\ ~isr => Filed \subseteq iflag /\ \A m \in Filed, d \in RxBox : d < m => d \in Filed

OrderInv ==
  /\ \A k \in 1 .. Len(Taken) : Taken[k] <= arrived
  /\ \A j, k \in 1 .. Len(Taken) : j < k => Taken[j] < Taken[k]
  /\ \A m \in Filed : content[m] <= arrived
  /\ \A m \in Filed, k \in 1 .. Len(Taken) : Taken[k] < content[m]
  /\ \A m, d \in Filed : m < d => content[m] < content[d]

Complete ==
  \A n \in 1 .. arrived :
    \/ n \in lost
    \/ \E k \in 1 .. Len(Taken) : Taken[k] = n
    \/ \E m \in Filed : content[m] = n

RxInv == got \in Seq(Frame) /\ (~slow => FiledInv /\ OrderInv /\ Complete)

LEMMA TakenIs ==
  ASSUME TypeOK, got \in Seq(Frame)
  PROVE  /\ entries(rxRing) \in Seq(Frame)
         /\ Len(entries(rxRing)) = ringBufferCount(rxRing)
         /\ isRingBufferEmpty(rxRing) <=> Len(entries(rxRing)) = 0
         /\ Taken \in Seq(Frame) /\ Len(Taken) = Len(got) + Len(entries(rxRing))
         /\ \A k \in 1 .. Len(Taken) :
              Taken[k] = IF k <= Len(got) THEN got[k] ELSE entries(rxRing)[k - Len(got)]
<1>1. /\ entries(rxRing) \in Seq(Frame)
      /\ Len(entries(rxRing)) = ringBufferCount(rxRing)
  BY EntriesType DEF TypeOK
<1>2. isRingBufferEmpty(rxRing) <=> ringBufferCount(rxRing) = 0
  BY CountType DEF TypeOK
<1>3. QED
  BY <1>1, <1>2 DEF Taken

LEMMA FrameIsNat ==
  ASSUME TypeOK
  PROVE  arrived \in Nat /\ \A m \in MailBox : content[m] \in Nat
BY DEF TypeOK, Frame

(* A step that neither reads nor files nor takes from a receive mailbox.   *)
LEMMA RxSame ==
  ASSUME UNCHANGED <<rxRing, got, arrived, lost>>,
         \A m \in RxBox : code'[m] = code[m] /\ content'[m] = content[m]
  PROVE  /\ Filed' = Filed /\ Taken' = Taken
         /\ OrderInv => OrderInv'
         /\ Complete => Complete'
<1>1. Filed' = Filed
  BY DEF Filed
<1>2. Taken' = Taken
  BY DEF Taken
<1>3. \A m \in Filed : content'[m] = content[m]
  BY DEF Filed
<1>4. OrderInv => OrderInv'
  BY <1>1, <1>2, <1>3 DEF OrderInv
<1>5. Complete => Complete'
  BY <1>1, <1>2, <1>3 DEF Complete
<1>6. QED
  BY <1>1, <1>2, <1>4, <1>5

LEMMA ReceiveTakes == TypeOK /\ RxInv /\ receive => RxInv'
<1> SUFFICES ASSUME TypeOK, RxInv, receive PROVE RxInv'
  OBVIOUS
<1> DEFINE E == entries(rxRing)
<1>1. /\ ~isRingBufferEmpty(rxRing)
      /\ got' = Append(got, oldest(rxRing)) /\ rxRing' = removeFromRingBuffer(rxRing)
      /\ UNCHANGED <<code, content, iflag, isr, todo, slow, arrived, lost>>
  BY DEF receive, boxes, interrupt
<1>2. oldest(rxRing) = Head(E) /\ E' = Tail(E)
  BY <1>1, RemoveTakesFirst DEF TypeOK
<1>3. got \in Seq(Frame) /\ E \in Seq(Frame) /\ Len(E) # 0
  BY <1>1, TakenIs DEF RxInv
<1>4. got' \in Seq(Frame)
  BY <1>1, <1>2, <1>3
<1>5. Taken' = Taken
  <2>1. Taken' = Append(got, Head(E)) \o Tail(E)
    BY <1>1, <1>2 DEF Taken
  <2> HIDE DEF E
  <2>2. Append(got, Head(E)) \o Tail(E) = got \o E
    BY <1>3
  <2>3. QED
    BY <2>1, <2>2 DEF Taken, E
<1>6. Filed' = Filed
  BY <1>1 DEF Filed
<1>7. ~slow => FiledInv' /\ OrderInv' /\ Complete'
  BY <1>1, <1>5, <1>6 DEF RxInv, FiledInv, OrderInv, Complete
<1>8. QED
  BY <1>1, <1>4, <1>7 DEF RxInv

(* message_isr() takes the frame of the first mailbox that it has left.    *)
LEMMA IsrReceiveTakes ==
  ASSUME TypeOK, RxInv, isr, ~slow, NEW m \in First(todo), IsrReceive(m),
         UNCHANGED <<got, arrived>>
  PROVE  Filed' = Filed \ {m} /\ OrderInv' /\ Complete'
<1> DEFINE x == content[m]
<1>1. /\ m \in todo /\ \A d \in todo : m <= d
      /\ m \in MailBox /\ todo \subseteq MailBox
  BY DEF First, TypeOK
<1>2. /\ code' = [code EXCEPT ![m] = "RX_EMPTY"] /\ UNCHANGED content
      /\ code[m] \in {"RX_FULL", "RX_OVERRUN"} /\ m \in RxBox
  BY <1>1, Boxes DEF IsrReceive, TypeOK, MailBox
<1>3. Filed' = Filed \ {m} /\ m \in Filed
  BY <1>1, <1>2, Boxes DEF Filed, TypeOK
<1>4. FiledInv /\ OrderInv /\ Complete /\ Filed \subseteq todo
  BY DEF RxInv, FiledInv
<1>5. /\ x \in Frame /\ x \in Nat /\ arrived \in Nat
      /\ \A d \in Filed : content[d] \in Nat /\ d \in Int
  BY <1>1, FrameIsNat, Boxes DEF TypeOK, Filed, RxBox
<1>6. \A d \in Filed' : x < content[d]
  <2>1. \A d \in Filed' : m < d
    BY <1>1, <1>3, <1>4, <1>5
  <2>2. QED
    BY <1>3, <1>4, <2>1 DEF OrderInv
<1>7. CASE ~isRingBufferFull(rxRing)
  <2>1. rxRing' = addToRingBuffer(rxRing, x) /\ UNCHANGED lost
    BY <1>7 DEF IsrReceive
  <2>2. entries(rxRing)' = Append(entries(rxRing), x)
    BY <1>5, <1>7, <2>1, AddAppends DEF TypeOK
  <2> DEFINE T == Taken
  <2>3. T \in Seq(Frame) /\ entries(rxRing) \in Seq(Frame) /\ got \in Seq(Frame)
    BY TakenIs DEF RxInv
  <2>4. T' = Append(T, x)
    BY <1>5, <2>2, <2>3 DEF Taken
  <2> HIDE DEF T
  <2>5. /\ Len(T') = Len(T) + 1 /\ T'[Len(T) + 1] = x /\ Len(T) \in Nat
        /\ \A k \in 1 .. Len(T) : T'[k] = T[k] /\ T[k] \in Nat
    BY <1>5, <2>3, <2>4 DEF Frame
  <2>6. /\ \A k \in 1 .. Len(T) : T[k] <= arrived /\ T[k] < x
        /\ \A j, k \in 1 .. Len(T) : j < k => T[j] < T[k]
        /\ \A d \in Filed : content[d] <= arrived
        /\ \A d \in Filed, k \in 1 .. Len(T) : T[k] < content[d]
        /\ \A d, e \in Filed : d < e => content[d] < content[e]
    BY <1>3, <1>4 DEF OrderInv, T
  <2>7. \A k \in 1 .. Len(T') : T'[k] <= arrived'
    BY <1>3, <2>5, <2>6
  <2>8. ASSUME NEW j \in 1 .. Len(T'), NEW k \in 1 .. Len(T'), j < k
        PROVE  T'[j] < T'[k]
    <3>1. j \in 1 .. Len(T)
      BY <2>5, <2>8
    <3>2. CASE k = Len(T) + 1
      BY <2>5, <2>6, <3>1, <3>2
    <3>3. CASE k \in 1 .. Len(T)
      BY <2>5, <2>6, <2>8, <3>1, <3>3
    <3>4. QED
      BY <2>5, <3>2, <3>3
  <2>9. \A d \in Filed', k \in 1 .. Len(T') : T'[k] < content'[d]
    BY <1>2, <1>3, <1>6, <2>5, <2>6
  <2>10. OrderInv'
    BY <1>2, <1>3, <2>6, <2>7, <2>8, <2>9 DEF OrderInv, T
  <2>11. ASSUME NEW n \in 1 .. arrived'
         PROVE  \/ n \in lost'
                \/ \E k \in 1 .. Len(T') : T'[k] = n
                \/ \E d \in Filed' : content'[d] = n
    <3>1. \/ n \in lost
          \/ \E k \in 1 .. Len(T) : T[k] = n
          \/ \E d \in Filed : content[d] = n
      BY <1>4 DEF Complete, T
    <3>2. Len(T) + 1 \in 1 .. Len(T')
      BY <2>5
    <3>3. \A k \in 1 .. Len(T) : k \in 1 .. Len(T')
      BY <2>5
    <3>4. QED
      BY <1>2, <1>3, <2>1, <2>5, <3>1, <3>2, <3>3
  <2>12. Complete'
    BY <2>11 DEF Complete, T
  <2>13. QED
    BY <1>3, <2>10, <2>12
<1>8. CASE isRingBufferFull(rxRing)
  <2>1. UNCHANGED rxRing /\ lost' = lost \cup {x}
    BY <1>8 DEF IsrReceive
  <2>2. Taken' = Taken
    BY <2>1 DEF Taken
  <2>3. OrderInv'
    BY <1>2, <1>3, <1>4, <2>2 DEF OrderInv
  <2>4. Complete'
    BY <1>2, <1>3, <1>4, <2>1, <2>2 DEF Complete
  <2>5. QED
    BY <1>3, <2>3, <2>4
<1>9. QED
  BY <1>7, <1>8

LEMMA StepTakes == TypeOK /\ RxInv /\ IsrStep => RxInv'
<1> SUFFICES ASSUME TypeOK, RxInv, IsrStep PROVE RxInv'
  OBVIOUS
<1>1. PICK m \in First(todo) :
        /\ IsrReceive(m) \/ IsrTransmit(m) \/ IsrIgnore(m)
        /\ todo' = todo \ {m}
  BY DEF IsrStep
<1>2. isr /\ isr' /\ UNCHANGED <<iflag, slow, arrived, got>>
  BY DEF IsrStep
<1>3. m \in MailBox
  BY DEF First, TypeOK
<1> SUFFICES ASSUME ~slow PROVE FiledInv' /\ OrderInv' /\ Complete'
  BY <1>2 DEF RxInv
<1>4. FiledInv /\ OrderInv /\ Complete /\ Filed \subseteq todo
  BY <1>2 DEF RxInv, FiledInv
<1>5. CASE IsrReceive(m)
  <2>1. Filed' = Filed \ {m} /\ OrderInv' /\ Complete'
    BY <1>2, <1>5, IsrReceiveTakes
  <2>2. QED
    BY <1>1, <1>2, <1>4, <2>1 DEF FiledInv
<1>6. CASE IsrTransmit(m) \/ IsrIgnore(m)
  <2>1. UNCHANGED <<rxRing, lost>>
    BY <1>6 DEF IsrTransmit, IsrIgnore, rings
  <2>2. m \notin Filed
    BY <1>6, Boxes DEF IsrTransmit, IsrIgnore, Filed, TypeOK
  <2>3. \A d \in RxBox : code'[d] = code[d] /\ content'[d] = content[d]
    BY <1>3, <1>6, Boxes DEF IsrTransmit, IsrIgnore, writeTxRegisters, TypeOK
  <2>4. Filed' = Filed /\ OrderInv' /\ Complete'
    BY <1>2, <1>4, <2>1, <2>3, RxSame
  <2>5. QED
    BY <1>1, <1>2, <1>4, <2>2, <2>4 DEF FiledInv
<1>7. QED
  BY <1>1, <1>5, <1>6

(* An arriving frame is the latest; it goes behind those that are filed.   *)
LEMMA ArriveFiles == TypeOK /\ RxInv /\ RxArrive => RxInv'
<1> SUFFICES ASSUME TypeOK, RxInv, RxArrive PROVE RxInv'
  OBVIOUS
<1> DEFINE free == {b \in RxBox : code[b] = "RX_EMPTY"}
           last == NumMailBoxes - numTxMailboxes - 1
           x == arrived + 1
<1>1. PICK m \in IF free # {} THEN First(free) ELSE {last} :
        /\ content' = [content EXCEPT ![m] = x]
        /\ code' = [code EXCEPT ![m] = IF free # {} THEN "RX_FULL" ELSE "RX_OVERRUN"]
        /\ iflag' = iflag \cup {m}
        /\ lost' = IF free # {} THEN lost ELSE lost \cup {content[m]}
  BY DEF RxArrive
<1>2. /\ arrived' = x /\ slow' = (slow \/ isr)
      /\ UNCHANGED <<rxRing, isr, todo, got>>
  BY DEF RxArrive, rings, interrupt
<1> SUFFICES ASSUME ~slow, ~isr PROVE FiledInv' /\ OrderInv' /\ Complete'
  BY <1>2 DEF RxInv
<1>3. /\ FiledInv /\ OrderInv /\ Complete /\ Filed \subseteq iflag
      /\ \A b \in Filed, d \in RxBox : d < b => d \in Filed
  BY DEF RxInv, FiledInv
<1>4. /\ RxBox \subseteq Int /\ \A b \in RxBox : b <= last
      /\ last \in RxBox /\ free = RxBox \ Filed /\ Filed \subseteq RxBox
  BY Boxes DEF RxBox, Filed
<1>5. m \in RxBox /\ (m \in Filed => m = last)
      /\ \A b \in RxBox \ Filed : m <= b
  BY <1>1, <1>4 DEF First
<1>6. \A b \in Filed \ {m} : b < m
  BY <1>3, <1>4, <1>5
<1>7. /\ content'[m] = x /\ \A b \in RxBox \ {m} : content'[b] = content[b]
      /\ Filed' = Filed \cup {m}
  BY <1>1, <1>5, Boxes DEF Filed, TypeOK
<1>8. FiledInv'
  <2>1. Filed' \subseteq iflag'
    BY <1>1, <1>3, <1>7
  <2>2. \A b \in Filed', d \in RxBox : d < b => d \in Filed'
    BY <1>3, <1>4, <1>5, <1>7
  <2>3. QED
    BY <1>2, <2>1, <2>2 DEF FiledInv
<1>9. Taken' = Taken
  BY <1>2 DEF Taken
<1>10. /\ arrived \in Nat /\ \A b \in Filed : content[b] \in Nat
       /\ \A k \in 1 .. Len(Taken) : Taken[k] \in Nat
  BY SMTT(30), <1>4, FrameIsNat, Boxes, TakenIs DEF RxInv, Frame
<1>11. OrderInv'
  <2>1. \A k \in 1 .. Len(Taken) : Taken[k] < x
    BY <1>3, <1>10 DEF OrderInv
  <2>2. \A b \in Filed \ {m} : content'[b] = content[b] /\ content[b] < x
    BY <1>3, <1>4, <1>7, <1>10 DEF OrderInv
  <2>3. \A b \in Filed' : content'[b] <= arrived'
    BY <1>2, <1>7, <1>10, <2>2
  <2>4. \A b \in Filed', k \in 1 .. Len(Taken) : Taken[k] < content'[b]
    BY <1>3, <1>7, <2>1, <2>2 DEF OrderInv
  <2>5. \A b, d \in Filed' : b < d => content'[b] < content'[d]
    <3>1. ASSUME NEW b \in Filed', NEW d \in Filed', b < d PROVE content'[b] < content'[d]
      <4>1. b \in Filed \ {m}
        BY <1>4, <1>5, <1>6, <1>7, <3>1
      <4>2. CASE d = m
        BY <1>7, <2>2, <4>1, <4>2
      <4>3. CASE d # m
        BY <1>3, <1>7, <2>2, <3>1, <4>1, <4>3 DEF OrderInv
      <4>4. QED
        BY <4>2, <4>3
    <3>2. QED
      BY <3>1
  <2>6. \A k \in 1 .. Len(Taken) : Taken[k] <= arrived'
    BY <1>2, <1>10, <2>1
  <2>7. QED
    BY <1>3, <1>9, <2>3, <2>4, <2>5, <2>6 DEF OrderInv
<1>12. ASSUME NEW n \in 1 .. arrived'
       PROVE  \/ n \in lost'
              \/ \E k \in 1 .. Len(Taken) : Taken[k] = n
              \/ \E b \in Filed' : content'[b] = n
  <2>1. CASE n = x
    BY <1>7, <2>1
  <2>2. CASE n \in 1 .. arrived
    <3>1. \/ n \in lost
          \/ \E k \in 1 .. Len(Taken) : Taken[k] = n
          \/ \E b \in Filed : content[b] = n
      BY <1>3, <2>2 DEF Complete
    <3>2. lost \subseteq lost'
      BY <1>1
    <3>3. m \in Filed => content[m] \in lost'
      BY <1>1, <1>4, <1>5 DEF First
    <3>4. QED
      BY <1>4, <1>7, <3>1, <3>2, <3>3
  <2>3. QED
    BY <1>2, <1>10, <2>1, <2>2
<1>13. Complete'
  BY <1>9, <1>12 DEF Complete
<1>14. QED
  BY <1>8, <1>11, <1>13

LEMMA RxInvStep == TypeOK /\ RxInv /\ [Next]_vars => RxInv'
<1> SUFFICES ASSUME TypeOK, RxInv, [Next]_vars PROVE RxInv'
  OBVIOUS
<1>1. CASE send \/ EnterIsr \/ ExitIsr \/ (\E m \in TxBox : TxDone(m)) \/ UNCHANGED vars
  <2>1. /\ UNCHANGED <<rxRing, got, arrived, lost>>
        /\ slow => slow'
    <3>1. CASE send
      BY <3>1 DEF send
    <3>2. CASE EnterIsr
      BY <3>2 DEF EnterIsr, rings, history
    <3>3. CASE ExitIsr
      BY <3>3 DEF ExitIsr, rings, history
    <3>4. CASE \E m \in TxBox : TxDone(m)
      <4>1. PICK m \in TxBox : TxDone(m)
        BY <3>4
      <4>2. QED
        BY <4>1 DEF TxDone, rings
    <3>5. CASE UNCHANGED vars
      BY <3>5 DEF vars, rings, history
    <3>6. QED
      BY <1>1, <3>1, <3>2, <3>3, <3>4, <3>5
  <2>2. \A m \in RxBox : code'[m] = code[m] /\ content'[m] = content[m]
    <3>1. CASE send
      <4>1. \/ \E m \in TxBox : writeTxRegisters(written + 1, m)
            \/ UNCHANGED <<code, content>>
        BY <3>1 DEF send, write, FreeBoxes, First
      <4>2. QED
        BY <4>1, Boxes DEF writeTxRegisters, TypeOK
    <3>2. CASE EnterIsr \/ ExitIsr \/ UNCHANGED vars
      BY <3>2 DEF EnterIsr, ExitIsr, vars, boxes
    <3>3. CASE \E m \in TxBox : TxDone(m)
      BY <3>3, Boxes DEF TxDone, TypeOK
    <3>4. QED
      BY <1>1, <3>1, <3>2, <3>3
  <2>3. Filed' = Filed /\ (OrderInv => OrderInv') /\ (Complete => Complete')
    BY <2>1, <2>2, RxSame
  <2>4. ~slow /\ FiledInv => FiledInv'
    <3>1. CASE send \/ UNCHANGED vars
      <4>1. UNCHANGED <<iflag, isr, todo>>
        BY <3>1 DEF send, interrupt, vars, boxes
      <4>2. QED
        BY <2>3, <4>1 DEF FiledInv
    <3>2. CASE EnterIsr
      <4>1. ~isr /\ isr' /\ todo' = iflag
        BY <3>2 DEF EnterIsr
      <4>2. QED
        BY <2>3, <4>1 DEF FiledInv
    <3>3. CASE ExitIsr
      <4>1. isr /\ ~isr' /\ todo = {}
        BY <3>3 DEF ExitIsr
      <4>2. QED
        BY <2>3, <4>1 DEF FiledInv
    <3>4. CASE \E m \in TxBox : TxDone(m)
      <4>1. iflag \subseteq iflag' /\ UNCHANGED <<isr, todo>>
        BY <3>4 DEF TxDone, interrupt
      <4>2. QED
        BY <2>3, <4>1 DEF FiledInv
    <3>5. QED
      BY <1>1, <3>1, <3>2, <3>3, <3>4
  <2>5. got' \in Seq(Frame)
    BY <2>1 DEF RxInv
  <2>6. QED
    BY <2>1, <2>3, <2>4, <2>5 DEF RxInv
<1>2. QED
  BY <1>1, ReceiveTakes, StepTakes, ArriveFiles DEF Next, message_isr

(* FlexCAN::read() and message_isr(): as long as the interrupt is done      *)
(* before the next frame arrives, frames are read in the order of arrival,  *)
(* none twice, and each is read, on its way, or counted here as lost, for   *)
(* any number of mailboxes and any size of the ring.                        *)
THEOREM ReceivesInOrder == Spec => []RxInOrder
<1>1. Init => RxInv
  <2> SUFFICES ASSUME Init PROVE RxInv
    OBVIOUS
  <2>1. TypeOK
    BY InitInv DEF IInv
  <2>2. got = <<>> /\ got \in Seq(Frame) /\ isRingBufferEmpty(rxRing)
    BY Frames, InitType DEF Init
  <2>3. Taken \in Seq(Frame) /\ Len(Taken) = 0
    BY <2>1, <2>2, TakenIs
  <2>4. Filed = {} /\ arrived = 0
    BY Boxes DEF Init, Filed
  <2>5. QED
    BY <2>2, <2>3, <2>4 DEF RxInv, FiledInv, OrderInv, Complete
<1>2. TypeOK /\ RxInv => RxInOrder
  <2> SUFFICES ASSUME TypeOK, RxInv, ~slow PROVE RxInOrder
    BY DEF RxInOrder
  <2>1. /\ OrderInv /\ Complete /\ got \in Seq(Frame)
    BY DEF RxInv
  <2>2. /\ Len(entries(rxRing)) = ringBufferCount(rxRing) /\ Len(got) \in Nat
        /\ Len(entries(rxRing)) \in Nat
        /\ Len(Taken) = Len(got) + Len(entries(rxRing))
        /\ \A k \in 1 .. Len(Taken) :
             Taken[k] = IF k <= Len(got) THEN got[k] ELSE entries(rxRing)[k - Len(got)]
    BY <2>1, TakenIs
  <2>3. \A j, k \in 1 .. Len(got) : j < k => got[j] < got[k]
    BY <2>1, <2>2 DEF OrderInv
  <2>4. ASSUME NEW k \in 1 .. Len(Taken)
        PROVE  \/ \E j \in 1 .. Len(got) : got[j] = Taken[k]
               \/ \E j \in 1 .. ringBufferCount(rxRing) : entries(rxRing)[j] = Taken[k]
    <3>1. CASE k <= Len(got)
      BY <2>2, <3>1
    <3>2. CASE k > Len(got)
      <4>1. k - Len(got) \in 1 .. ringBufferCount(rxRing)
        BY <2>2, <3>2
      <4>2. QED
        BY <2>2, <3>2, <4>1
    <3>3. QED
      BY <2>2, <3>1, <3>2
  <2>5. ASSUME NEW n \in 1 .. arrived
        PROVE  \/ n \in lost
               \/ \E k \in 1 .. Len(got) : got[k] = n
               \/ \E k \in 1 .. ringBufferCount(rxRing) : entries(rxRing)[k] = n
               \/ \E m \in RxBox : code[m] # "RX_EMPTY" /\ content[m] = n
    BY <2>1, <2>4 DEF Complete, Filed
  <2>6. QED
    BY <2>3, <2>5 DEF RxInOrder
<1>3. QED
  BY <1>1, <1>2, RxInvStep, TypeCorrect, PTL DEF Spec
=============================================================================
