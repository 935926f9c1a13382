-------------------------------- MODULE Uart --------------------------------
(***************************************************************************)
(* sl_iostream_uart.c over sl_iostream_usart.c: the VCOM stream.  Received *)
(* bytes wait in a ring that the interrupt fills and the program empties;  *)
(* a write holds a requirement on EM1 until the last byte is out.          *)
(***************************************************************************)
EXTENDS PowerManager

CONSTANTS rx_buffer_length

ASSUME RingAssumption == rx_buffer_length \in Nat \ {0}

VARIABLES
    rx_buffer,       \* the slots that hold a byte nobody has read
    rx_read_index, rx_write_index, rx_count,
    em_req_added,
    tx_idle,
    uart_sleep,      \* context->sleep
    sending,         \* USART: bytes in its buffer and its shift register
    rx_valid,        \* USART: a byte has been received
    rx_ien, txc_ien, \* USART: interrupts enabled
    txc_if,          \* USART: transmit complete
    idle             \* uart_write's local

ringVars == <<rx_buffer, rx_read_index, rx_write_index, rx_count>>
rxVars == <<ringVars, rx_valid, rx_ien>>
txVars == <<tx_idle, sending, txc_ien, txc_if, idle>>
uartVars == <<rxVars, txVars, em_req_added, uart_sleep>>

UartIrq == (rx_valid /\ rx_ien) \/ (txc_if /\ txc_ien)

\* The next index of the ring.
Next1(i) == IF i + 1 = rx_buffer_length THEN 0 ELSE i + 1

-----------------------------------------------------------------------------
(* sl_iostream_usart_irq_handler *)

\* The slip: it does not look for room.
RoomAlways == TRUE

\* sli_uart_is_rx_space_avail
SpaceAvail == rx_count < rx_buffer_length

\* sli_uart_push_rxd_data, or the flow control of a full ring.
RxData ==
    IF SpaceAvail
    THEN /\ rx_buffer' = rx_buffer \union {rx_write_index}
         /\ rx_write_index' = Next1(rx_write_index)
         /\ rx_count' = rx_count + 1
         /\ rx_valid' = FALSE
         /\ UNCHANGED <<rx_read_index, rx_ien>>
    ELSE /\ rx_ien' = FALSE
         /\ UNCHANGED <<ringVars, rx_valid>>

\* sli_uart_txc: the requirement of the write goes with its last byte, unless
\* a write is under way.
TransmitComplete ==
    /\ txc_if' = FALSE /\ txc_ien' = FALSE
    /\ tx_idle' = TRUE
    /\ IF tx_idle THEN UNCHANGED modeVars ELSE RemoveRequirement

\* Both causes in one run, the received byte first.
UsartIrqHandler ==
    /\ UartIrq
    /\ IF rx_valid THEN RxData ELSE UNCHANGED rxVars
    /\ IF txc_if THEN TransmitComplete ELSE UNCHANGED <<modeVars, txc_if, txc_ien, tx_idle>>
    /\ uart_sleep' = IF txc_if /\ ~tx_idle THEN "SLEEP"
                     ELSE IF rx_valid /\ SpaceAvail THEN "WAKEUP" ELSE uart_sleep
    /\ UNCHANGED <<em_req_added, sending, idle, timerVars>>

-----------------------------------------------------------------------------
(* uart_write, one step between two instructions an interrupt can part *)

TakeIdle ==
    /\ idle' = tx_idle /\ tx_idle' = TRUE
    /\ UNCHANGED <<powerVars, rxVars, em_req_added, uart_sleep, sending, txc_ien, txc_if>>

ReleaseLast ==
    /\ IF idle THEN UNCHANGED modeVars ELSE RemoveRequirement
    /\ idle' = TRUE
    /\ UNCHANGED <<timerVars, rxVars, em_req_added, uart_sleep, tx_idle, sending,
                   txc_ien, txc_if>>

\* USART_Tx waits for its buffer.
UsartTx ==
    /\ sending < 2
    /\ sending' = sending + 1
    /\ UNCHANGED <<powerVars, rxVars, em_req_added, uart_sleep, tx_idle, txc_ien, txc_if, idle>>

EnableTxc ==
    /\ txc_ien' = TRUE
    /\ UNCHANGED <<powerVars, rxVars, em_req_added, uart_sleep, tx_idle, sending, txc_if, idle>>

\* The slip: the requirement is forgotten.
HoldNothing == UNCHANGED <<powerVars, uartVars>>

HoldRequirement == AddRequirement /\ UNCHANGED <<timerVars, uartVars>>

MarkBusy ==
    /\ tx_idle' = FALSE
    /\ UNCHANGED <<powerVars, rxVars, em_req_added, uart_sleep, sending, txc_ien, txc_if, idle>>

-----------------------------------------------------------------------------
(* pop_byte_from_read_fifo *)

PopByte ==
    /\ rx_count > 0
    /\ rx_buffer' = rx_buffer \ {rx_read_index}
    /\ rx_read_index' = Next1(rx_read_index)
    /\ UNCHANGED <<powerVars, txVars, em_req_added, uart_sleep, rx_write_index,
                   rx_count, rx_valid, rx_ien>>

PopCounted ==
    /\ rx_count' = rx_count - 1
    /\ UNCHANGED <<powerVars, txVars, em_req_added, uart_sleep, rx_buffer,
                   rx_read_index, rx_write_index, rx_valid, rx_ien>>

\* The slip: it looks for a full ring, after the byte is gone from it.
EnableRxWhenFull ==
    /\ rx_ien' = (rx_ien \/ ~SpaceAvail)
    /\ UNCHANGED <<powerVars, ringVars, txVars, em_req_added, uart_sleep, rx_valid>>

EnableRx ==
    /\ rx_ien' = TRUE
    /\ UNCHANGED <<powerVars, ringVars, txVars, em_req_added, uart_sleep, rx_valid>>

\* set_rx_energy_mode_restriction; no interrupt looks at its flag.
SetRxRestriction(on) ==
    /\ em_req_added' = on
    /\ IF on = em_req_added THEN UNCHANGED modeVars
       ELSE IF on THEN AddRequirement ELSE RemoveRequirement
    /\ UNCHANGED <<timerVars, rxVars, txVars, uart_sleep>>

\* sleep_on_isr_exit: a transmission that ended may go back to sleep, once.
UartSleeps == tx_idle /\ uart_sleep = "SLEEP"

-----------------------------------------------------------------------------
(* The USART, which stops in EM2 *)

ByteSent ==
    /\ sending > 0
    /\ sending' = sending - 1
    /\ txc_if' = (txc_if \/ sending = 1)
    /\ UNCHANGED <<powerVars, rxVars, em_req_added, uart_sleep, tx_idle, txc_ien, idle>>

ByteReceived ==
    /\ ~rx_valid
    /\ rx_valid' = TRUE
    /\ UNCHANGED <<powerVars, ringVars, rx_ien, txVars, em_req_added, uart_sleep>>

\* After init, with the restriction of the configuration in place.
UartInit ==
    /\ rx_buffer = {} /\ rx_read_index = 0 /\ rx_write_index = 0 /\ rx_count = 0
    /\ em_req_added = TRUE
    /\ tx_idle = TRUE /\ uart_sleep = "IGNORE"
    /\ sending = 0
    /\ rx_valid = FALSE /\ rx_ien = TRUE /\ txc_ien = FALSE /\ txc_if = FALSE
    /\ idle = TRUE

=============================================================================
