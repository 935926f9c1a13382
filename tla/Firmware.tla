------------------------------ MODULE Firmware ------------------------------
(***************************************************************************)
(* What the source files of the gamepad share: the super loop of main.c,   *)
(* the pending external signal, and the fields of bt_t (inc/bt.h) that     *)
(* button.c and hid_gamepad.c read through get_bt_ptr().                   *)
(*                                                                         *)
(* The super loop handles one Bluetooth event at a time.  pc says where it *)
(* stands: "idle" between two events, or inside one of the handlers that   *)
(* another actor (the GPIO interrupt, the radio, a power loss) can cut in  *)
(* two.                                                                    *)
(***************************************************************************)
EXTENDS Naturals

VARIABLES
    mcu,          \* "running", or why the processor runs this program no more
    pc,           \* position of the super loop
    sig,          \* PB_UPDATE_EVT raised by sl_bt_external_signal, not yet popped
    link,         \* TRUE iff the stack really has a connection open
    conn_handle,  \* bt.adv_conn.conn_handle
    report_ccc    \* bt.adv_conn.conn.gatts.report_ccc

firmwareVars == <<mcu, pc, sig, link, conn_handle, report_ccc>>

INVALID_HANDLE == 255

\* With one connection (SL_BT_CONFIG_MAX_CONNECTIONS) the stack hands out one handle.
Handle == 1

\* "call_failed": a stack call inside SE_CALL3 returned an error;
\* "assert": an ASSERT of bt.c on conn_handle failed;
\* "cache_full": the ASSERT of btn_push_evt failed;
\* "not_handled": the ASSERT_MSG(0, "Need to handle") of a write request;
\* "app_assert": sl_app_assert of sl_ota_dfu.c failed; "dfu": the bootloader took over.
\* An assertion that fails stops the program, as sl_app_assert does.
Stopped ==
    {"call_failed", "assert", "cache_full", "app_assert", "not_handled", "dfu"}

Running == mcu = "running"

ButtonHandler == {"btn_handler", "btn_clear"}

Elsewhere == {"idle", "save_bonded", "save_deleted"}

Connected == conn_handle # INVALID_HANDLE

FirmwareTypeOK ==
    /\ mcu \in {"running"} \union Stopped
    /\ pc \in ButtonHandler \union Elsewhere
    /\ sig \in BOOLEAN
    /\ link \in BOOLEAN
    /\ conn_handle \in {0, Handle, INVALID_HANDLE}
    /\ report_ccc \in 0 .. 3

FirmwareInit ==
    /\ mcu = "running"
    /\ pc = "idle"
    /\ sig = FALSE
    /\ link = FALSE
    /\ conn_handle = 0
    /\ report_ccc = 0

\* Power comes back: .bss starts over.
FirmwarePowerOn ==
    /\ mcu' = "running"
    /\ pc' = "idle"
    /\ sig' = FALSE
    /\ link' = FALSE
    /\ conn_handle' = 0
    /\ report_ccc' = 0

\* sl_bt_step popping the external-signal event; app.c hands it to
\* __on_external_signals, which enters btn_update_handler.
EnterButtonHandler ==
    /\ Running
    /\ pc = "idle"
    /\ sig
    /\ sig' = FALSE
    /\ pc' = "btn_handler"
    /\ UNCHANGED <<mcu, link, conn_handle, report_ccc>>

\* _gamepad_send_report: only a connected and subscribed host is sent a report,
\* and the stack refuses the notification when that connection is gone.
SendReport ==
    mcu' = IF Connected /\ report_ccc # 0 /\ ~link THEN "call_failed" ELSE mcu

=============================================================================
