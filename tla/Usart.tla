------------------------------- MODULE Usart -------------------------------
(***************************************************************************)
(* A serial line between two boards that run this driver with software     *)
(* flow control (DeviceCode/pal/COM/usart/usart.cpp, the service routine   *)
(* of STM32F10x_USART.cpp and the managed SerialPort).  One board writes,  *)
(* the other reads whenever it is told that there is data.  Characters are *)
(* counted, not told apart; XON and XOFF of the reader travel back.        *)
(*                                                                         *)
(* Both lines move a character in the same time, in which the two service  *)
(* routines have run.  The threads of the boards are interrupted between   *)
(* any two of their critical sections.  Hardware handshake, errors of the  *)
(* line, power saving and reopening a port are left out.                   *)
(***************************************************************************)
EXTENDS Integers, Sequences, SequencesExt

CONSTANTS
  TxSize, RxSize,     \* TX_USART_BUFFER_SIZE and RX_USART_BUFFER_SIZE
  ReadSizes,          \* the numbers of characters a handler asks for
  MaxLostXon          \* bound of the XONs that the line loses

ASSUME UsartAssumption ==
  /\ {TxSize, RxSize} \subseteq Nat \ {0}
  /\ ReadSizes \subseteq 1..RxSize
  /\ MaxLostXon \in Nat

VARIABLES
  (* the writer *)
  tx,           \* the characters in the TxQueue
  txe,          \* its TXE interrupt is enabled
  forth,        \* the characters in its transmitter
  xon,          \* c_TX_XON_STATE
  expired,      \* USART_TX_XOFF_TIMEOUT_TICKS have passed since the XOFF
  comEvent,     \* SYSTEM_EVENT_FLAG_COM_IN or _COM_OUT
  writer,       \* where the writing thread is
  wrote,        \* its call of Write has written something
  (* the reader *)
  rx,           \* the characters in the RxQueue
  back,         \* XON and XOFF in its transmitter
  backTxe,      \* its TXE interrupt is enabled
  pending,      \* c_TX_BUFFERXOFF, c_TX_BUFFERXON
  xoffed,       \* the XOFF_FLAG_FULL of RX_XOFF_STATE
  dataEventSet, \* fDataEventSet
  posted,       \* the event waits to be dispatched
  reader,       \* where the handler of the event is
  wanted,       \* the characters it still wants
  (* history *)
  overrun, lostXon

sender == <<tx, txe, forth, xon, expired, comEvent, writer, wrote>>
receiver == <<rx, back, backTxe, pending, xoffed, dataEventSet, posted, reader, wanted>>
PortVars == <<sender, receiver, overrun, lostXon>>

High == (RxSize * 3) \div 4
Low == RxSize \div 4

(* The transmitter has a holding and a shift register. *)
Transmitter == 2

----------------------------------------------------------------------------
(* The writing thread. *)

Sender == UNCHANGED <<receiver, overrun, lostXon>>

StartWrite == /\ writer = "idle" /\ writer' = "write"
              /\ UNCHANGED <<tx, txe, forth, xon, expired, comEvent, wrote>> /\ Sender

WriteUnchecked == /\ writer = "write" /\ writer' = "push1" /\ wrote' = FALSE
                  /\ UNCHANGED <<tx, txe, forth, xon, expired, comEvent>> /\ Sender

(* Write looks at the flow control once, with interrupts on.               *)
Write ==
  /\ writer = "write" /\ wrote' = FALSE
  /\ IF xon \/ expired THEN xon' = TRUE /\ writer' = "push1"
                       ELSE UNCHANGED xon /\ writer' = "wait"
  /\ UNCHANGED <<tx, txe, forth, expired, comEvent>> /\ Sender

PushOver ==
  /\ writer \in {"push1", "push2"}
  /\ \E n \in 1..TxSize : tx' = tx + n
  /\ wrote' = TRUE /\ writer' = "enable"
  /\ UNCHANGED <<txe, forth, xon, expired, comEvent>> /\ Sender

(* It pushes up to two runs of characters; the first may be all there are. *)
Push ==
  /\ writer \in {"push1", "push2"}
  /\ \/ /\ \E n \in 1..TxSize - tx : tx' = tx + n
        /\ wrote' = TRUE
        /\ writer' \in IF writer = "push1" THEN {"push2", "enable"} ELSE {"enable"}
     \/ /\ tx = TxSize
        /\ writer' = "enable" /\ UNCHANGED <<tx, wrote>>
  /\ UNCHANGED <<txe, forth, xon, expired, comEvent>> /\ Sender

(* SerialPort.Write waits for an event when nothing could be written.      *)
EnableTx ==
  /\ writer = "enable" /\ txe' = TRUE
  /\ writer' \in IF wrote THEN {"idle", "write"} ELSE {"wait"}
  /\ UNCHANGED <<tx, forth, xon, expired, comEvent, wrote>> /\ Sender

(* ProcessActivity: the event wakes the thread up if it waits.             *)
ProcessActivity ==
  /\ comEvent /\ writer \in {"idle", "wait"}
  /\ comEvent' = FALSE
  /\ writer' = IF writer = "wait" THEN "write" ELSE writer
  /\ UNCHANGED <<tx, txe, forth, xon, expired, wrote>> /\ Sender

(* Flush gives up at once when the other side has sent XOFF, and else      *)
(* waits until everything is out.                                          *)
Flush == /\ writer = "idle" /\ xon /\ writer' = "flush"
         /\ UNCHANGED <<tx, txe, forth, xon, expired, comEvent, wrote>> /\ Sender

FlushDone == /\ writer = "flush" /\ tx = 0 /\ forth = 0 /\ writer' = "idle"
             /\ UNCHANGED <<tx, txe, forth, xon, expired, comEvent, wrote>> /\ Sender

DiscardOutBuffer ==
  /\ writer \in {"idle", "wait"} /\ tx' = 0
  /\ UNCHANGED <<txe, forth, xon, expired, comEvent, writer, wrote>> /\ Sender

(* USARTInterruptHandler with RemoveCharFromTxBuffer: XOFF does not hold   *)
(* back what is in the TxQueue.                                            *)
TxEmpty ==
  /\ txe /\ forth < Transmitter
  /\ IF tx > 0 THEN tx' = tx - 1 /\ forth' = forth + 1 /\ UNCHANGED txe
               ELSE txe' = FALSE /\ UNCHANGED <<tx, forth>>
  /\ comEvent' = TRUE
  /\ UNCHANGED <<xon, expired, writer, wrote>> /\ Sender

(* The time of the failsafe: a reader that is alive reads in less.         *)
Expire ==
  /\ ~xon /\ ~expired
  /\ ~xoffed /\ pending = {} /\ back = <<>>
  /\ expired' = TRUE
  /\ UNCHANGED <<tx, txe, forth, xon, comEvent, writer, wrote>> /\ Sender

----------------------------------------------------------------------------
(* The reading board. *)

Receiver == UNCHANGED <<sender, overrun, lostXon>>

SendXONOnly == /\ pending' = pending \cup {"XON"} /\ backTxe' = TRUE
               /\ UNCHANGED xoffed

SendXON == /\ xoffed' = FALSE /\ backTxe' = TRUE
           /\ pending' = pending \cup {"XON"}

SendXOFF == /\ xoffed' = TRUE
            /\ IF xoffed THEN UNCHANGED <<backTxe, pending>>
               ELSE backTxe' = TRUE /\ pending' = pending \cup {"XOFF"}

(* SetEvent of USART_EVENT_DATA_CHARS. *)
SetDataEvent == dataEventSet' = TRUE /\ posted' = (posted \/ ~dataEventSet)

(* The event is dispatched, and its handler reads some characters.         *)
DataReceived ==
  /\ reader = "idle" /\ posted /\ posted' = FALSE
  /\ reader' = "read"
  /\ wanted' \in ReadSizes
  /\ UNCHANGED <<rx, back, backTxe, pending, xoffed, dataEventSet>> /\ Receiver

PassesBelowLow(before, after) == after < Low /\ before > Low

PassesLow(before, after) == after <= Low /\ before > Low

(* One pass of the loop of Read.                                           *)
ReadSome ==
  /\ reader = "read" /\ wanted > 0 /\ rx > 0
  /\ \E n \in 1..wanted :
       /\ n <= rx
       /\ rx' = rx - n /\ wanted' = wanted - n
       /\ IF PassesLow(rx, rx') THEN SendXON ELSE UNCHANGED <<xoffed, backTxe, pending>>
  /\ UNCHANGED <<back, dataEventSet, posted, reader>> /\ Receiver

ReadDone ==
  /\ reader = "read" /\ (wanted = 0 \/ rx = 0)
  /\ reader' = "done" /\ wanted' = 0
  /\ UNCHANGED <<rx, back, backTxe, pending, xoffed, dataEventSet, posted>> /\ Receiver

ClearAfterSetEvent ==
  /\ reader = "done" /\ reader' = "idle"
  /\ dataEventSet' = FALSE
  /\ UNCHANGED <<posted, rx, back, backTxe, pending, xoffed, wanted>> /\ Receiver

(* What has come since then makes another event.                           *)
ClearDataEvent ==
  /\ reader = "done" /\ reader' = "idle"
  /\ dataEventSet' = (rx > 0) /\ posted' = (posted \/ rx > 0)
  /\ UNCHANGED <<rx, back, backTxe, pending, xoffed, wanted>> /\ Receiver

DiscardInBuffer ==
  /\ reader = "idle"
  /\ rx' = 0 /\ SendXON
  /\ UNCHANGED <<back, dataEventSet, posted, reader, wanted>> /\ Receiver

(* RemoveCharFromTxBuffer of the reader: XOFF goes before XON.             *)
BackTxEmpty ==
  /\ backTxe /\ Len(back) < Transmitter
  /\ IF pending = {} THEN backTxe' = FALSE /\ UNCHANGED <<back, pending>>
     ELSE LET c == IF "XOFF" \in pending THEN "XOFF" ELSE "XON"
          IN back' = Append(back, c) /\ pending' = pending \ {c} /\ UNCHANGED backTxe
  /\ UNCHANGED <<rx, xoffed, dataEventSet, posted, reader, wanted>> /\ Receiver

----------------------------------------------------------------------------
(* AddCharToRxBuffer of the reader. *)
AddCharToRxBuffer ==
  IF rx = RxSize
  THEN overrun' = TRUE /\ UNCHANGED <<rx, xoffed, backTxe, pending, dataEventSet, posted>>
  ELSE /\ rx' = rx + 1
       /\ IF rx' >= High THEN SendXOFF ELSE UNCHANGED <<xoffed, backTxe, pending>>
       /\ SetDataEvent
       /\ UNCHANGED overrun

(* AddCharToRxBuffer of the writer, which gets XON or XOFF, if anything.   *)
AddControl ==
  \/ /\ back # <<>>
     /\ xon' = (Head(back) = "XON")
     /\ expired' = FALSE
     /\ comEvent' = TRUE /\ UNCHANGED lostXon
  \/ /\ back # <<>> /\ Head(back) = "XON"
     /\ lostXon < MaxLostXon /\ lostXon' = lostXon + 1
     /\ UNCHANGED <<xon, expired, comEvent>>
  \/ /\ back = <<>>
     /\ UNCHANGED <<xon, expired, comEvent, lostXon>>

(* Both lines have moved a character.  By then the service routines have   *)
(* given their transmitters what there was.                                *)
CharacterTime ==
  /\ ~(txe /\ forth < Transmitter) /\ ~(backTxe /\ Len(back) < Transmitter)
  /\ forth > 0 \/ back # <<>>
  /\ IF forth > 0 THEN forth' = forth - 1 /\ AddCharToRxBuffer
     ELSE UNCHANGED <<forth, rx, xoffed, backTxe, pending, dataEventSet, posted, overrun>>
  /\ AddControl
  /\ back' = IF back = <<>> THEN back ELSE Tail(back)
  /\ UNCHANGED <<tx, txe, writer, wrote, reader, wanted>>

----------------------------------------------------------------------------
PortInit ==
  /\ tx = 0 /\ txe = FALSE /\ forth = 0 /\ xon = TRUE /\ expired = FALSE
  /\ comEvent = FALSE /\ writer = "idle" /\ wrote = FALSE
  /\ rx = 0 /\ back = <<>> /\ backTxe = FALSE /\ pending = {} /\ xoffed = FALSE
  /\ dataEventSet = FALSE /\ posted = FALSE /\ reader = "idle" /\ wanted = 0
  /\ overrun = FALSE /\ lostXon = 0

Interrupt == TxEmpty \/ BackTxEmpty \/ CharacterTime
WriteOn == Write \/ Push \/ EnableTx \/ ProcessActivity \/ FlushDone
ReadOn == DataReceived \/ ReadSome \/ ReadDone \/ ClearDataEvent

PortNext == Interrupt \/ WriteOn \/ ReadOn \/ Expire
        \/ StartWrite \/ Flush \/ DiscardOutBuffer \/ DiscardInBuffer

(* The hardware, the threads and the handler go on; nothing makes the      *)
(* application write, flush or discard.                                    *)
PortFairness ==
  /\ WF_PortVars(Interrupt) /\ WF_PortVars(WriteOn)
  /\ WF_PortVars(ReadOn) /\ WF_PortVars(Expire)

PortSpec == PortInit /\ [][PortNext]_PortVars /\ PortFairness

----------------------------------------------------------------------------
PortTypeOK ==
  /\ tx \in 0..TxSize /\ forth \in 0..Transmitter /\ rx \in 0..RxSize
  /\ {txe, xon, expired, comEvent, wrote} \subseteq BOOLEAN
  /\ {backTxe, xoffed, dataEventSet, posted, overrun} \subseteq BOOLEAN
  /\ writer \in {"idle", "write", "push1", "push2", "enable", "wait", "flush"}
  /\ back \in Seq({"XON", "XOFF"}) /\ Len(back) <= Transmitter
  /\ pending \subseteq {"XON", "XOFF"}
  /\ reader \in {"idle", "read", "done"} /\ wanted \in 0..RxSize
  /\ lostXon \in 0..MaxLostXon
  /\ posted => dataEventSet

(* No character is lost while the writer's queue fits into the room above  *)
(* the high-water mark.                                                    *)
NoOverrun == ~overrun

(* Whatever waits in the receive queue has been announced to the           *)
(* application, or a handler is about to look again.                       *)
DataAnnounced == rx > 0 => posted \/ reader # "idle"

(* What the writer will have been told when everything on the way has      *)
(* arrived.                                                                *)
ToldXon ==
  IF "XON" \in pending THEN TRUE
  ELSE IF "XOFF" \in pending THEN FALSE
  ELSE IF back # <<>> THEN Last(back) = "XON"
  ELSE xon

(* The two sides agree on who may send, as long as the line loses no XON.  *)
InStep == lostXon = 0 => ToldXon = ~xoffed

(* A thread that waits to write gets something written in the end.  When   *)
(* an XON was lost it may wait for ever: the failsafe timeout is looked at *)
(* by the next Write only, and nothing wakes the thread up for it.         *)
WriterProceeds ==
  writer = "wait" ~> (writer = "enable" /\ wrote) \/ lostXon > 0

----------------------------------------------------------------------------
(* What makes these inductive, for queues of any size.                     *)

(* The queue falls from its high-water to its low-water mark, or rises     *)
(* again, in more characters than two XONs and XOFFs that wait and two in  *)
(* the transmitter can be late.                                            *)
MarksApart == Low + 4 < High

(* Above the high-water mark there is room for a full TxQueue, the two     *)
(* runs of characters that a Write which has begun may still push, and     *)
(* what is in the transmitter.                                             *)
EnoughRoom == High + 3 * TxSize + Transmitter <= RxSize

OnTheWay == Len(back) + (IF "XON" \in pending THEN 1 ELSE 0)
                      + (IF "XOFF" \in pending THEN 1 ELSE 0)

(* An XON is on its way for a few characters only. *)
FewOnTheWay ==
  ~xoffed => rx < High /\ (OnTheWay > 0 => rx + OnTheWay <= Low + 4)

(* An XOFF is sent with nothing else on its way, and no more is sent until *)
(* there is an XON to send.                                                *)
LastSent ==
  /\ pending # {} => backTxe
  /\ "XON" \in pending => ~xoffed
  /\ "XOFF" \in pending /\ "XON" \notin pending => xoffed
  /\ ~xoffed /\ pending = {} /\ back # <<>> => back[Len(back)] = "XON"
  /\ ~xoffed /\ pending = {} /\ back = <<>> /\ lostXon = 0 => xon
  /\ xoffed /\ pending # {} => back = <<>>
  /\ xoffed /\ pending = {} => back \in {<<>>, <<"XOFF">>}
  /\ xoffed /\ pending = {} /\ back = <<>> => ~xon /\ ~expired

ControlInStep == FewOnTheWay /\ LastSent

(* What the writing thread may still push although it has been told XOFF.  *)
Owed == IF writer = "push1" THEN 2 * TxSize
        ELSE IF writer = "push2" THEN TxSize ELSE 0

(* What may still come after an XOFF finds room.                           *)
RoomLeft ==
  xoffed => IF pending = {} /\ back = <<>>
            THEN rx + forth + tx + Owed <= RxSize
            ELSE rx + 3 * TxSize + Transmitter <= RxSize

(* fDataEventSet says that an event is posted or its handler runs; never   *)
(* both, so that no event is handled in vain.                              *)
AnnouncedOnce ==
  /\ dataEventSet = (posted \/ reader # "idle")
  /\ ~(posted /\ reader # "idle")
=============================================================================
