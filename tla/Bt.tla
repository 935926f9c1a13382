--------------------------------- MODULE Bt ---------------------------------
(***************************************************************************)
(* src/bt.c: boot, advertising, connection, bonding, with the OTA handler  *)
(* of sl_ota_dfu.c that sl_bt_process_event calls first.  One action per   *)
(* event handler; a handler that writes flash is cut where a power loss    *)
(* leaves a different flash behind.                                        *)
(***************************************************************************)
EXTENDS Stack

CONSTANTS
    AdvHandle,  \* handle sl_bt_advertiser_create_set returns
    MaxResets   \* bound: power losses explored

ASSUME AdvHandleAssumption == AdvHandle \in 0 .. 254
ASSUME MaxResetsAssumption == MaxResets \in Nat

VARIABLES
    byte0,         \* first byte of the adv/conn union: adv.enabled, or interval & 0xff
    byte1,         \* second byte: adv.handle, or interval >> 8
    bonded,        \* adv_conn.conn.sm.bonded
    bonding_info,  \* bt.bonding_info
    boot_to_dfu,   \* static flag of sl_ota_dfu.c
    resets         \* history: power losses so far

appVars == <<byte0, byte1, bonded, bonding_info, boot_to_dfu>>
btVars == <<firmwareVars, stackVars, flashVars, appVars, resets>>

BtTypeOK ==
    /\ FirmwareTypeOK
    /\ StackTypeOK
    /\ byte0 \in 0 .. 255
    /\ byte1 \in 0 .. 255
    /\ bonded \in BOOLEAN
    /\ bonding_info \in 0 .. 1
    /\ boot_to_dfu \in BOOLEAN
    /\ resets \in 0 .. MaxResets

-----------------------------------------------------------------------------
(* Helpers *)

\* sl_bt_step pops an event of this kind and app.c hands it to its handler.
Handling(id) ==
    /\ Running
    /\ pc = "idle"
    /\ evq # <<>>
    /\ Head(evq).id = id

Arg == Head(evq).arg

Popped == evq' = Tail(evq)

\* Slip: the client configuration survives the connection.
ClearAdvConnOnly == byte1' = 0 /\ bonded' = FALSE /\ UNCHANGED report_ccc

\* Slip: 0 is taken for the invalid bonding handle.
IsBondNonzero(bonding) == bonding # 0

IsBond(bonding) == bonding # INVALID_HANDLE

\* memset of adv_conn: the union and conn's fields behind it.
ClearAdvConn ==
    /\ byte1' = 0
    /\ bonded' = FALSE
    /\ report_ccc' = 0

\* start_adv stops at an assertion, or returns, with adv.enabled as it was.
NoStart(stop, enabled) ==
    mcu' = stop /\ byte0' = enabled /\ UNCHANGED <<adv, timing>>

\* sl_bt_advertiser_set_timing and sl_bt_advertiser_start.  The stack refuses a
\* handle it did not create and a start while its one connection is open.
Start(enabled, advHandle, info) ==
    IF link \/ advHandle # AdvHandle
      THEN NoStart("call_failed", enabled)
      ELSE /\ timing' = IF info = 1 THEN "fast" ELSE "normal"
           /\ adv' = TRUE
           /\ byte0' = 1
           /\ UNCHANGED mcu

\* Slip: it starts again whether or not it believes it advertises.
StartAdvAlways(handle, enabled, advHandle, info) == Start(enabled, advHandle, info)

\* Slip: a bonded gamepad is not discoverable.
StartAdvUnlessBonded(handle, enabled, advHandle, info) ==
    IF enabled # 0 \/ info = 1 THEN NoStart(mcu, enabled) ELSE Start(enabled, advHandle, info)

\* start_adv with conn_handle, adv.enabled and adv.handle as given.
StartAdv(handle, enabled, advHandle, info) ==
    IF handle # INVALID_HANDLE THEN NoStart("assert", enabled)
    ELSE IF enabled # 0 THEN NoStart(mcu, enabled)
    ELSE Start(enabled, advHandle, info)

\* ASSERT(evt && bt.adv_conn.conn_handle != INVALID_HANDLE) of the sm handlers,
\* then the rest of the handler.
Asserting(rest) == IF Connected THEN rest
                   ELSE /\ mcu' = "assert"
                        /\ UNCHANGED <<pc, pairing, flashVars, bonded, bonding_info>>

-----------------------------------------------------------------------------
(* Power *)

\* .bss starts over; the flash stays.
BtPowerOn ==
    /\ FirmwarePowerOn
    /\ evq' = <<Event("boot", 0)>>
    /\ adv' = FALSE
    /\ timing' = "unset"
    /\ subscribed' = 0
    /\ pairing' = "none"
    /\ byte0' = 0
    /\ byte1' = 0
    /\ bonded' = FALSE
    /\ bonding_info' = 0
    /\ boot_to_dfu' = FALSE

PowerLoss ==
    /\ resets < MaxResets
    /\ resets' = resets + 1
    /\ BtPowerOn
    /\ UNCHANGED flashVars

-----------------------------------------------------------------------------
(* The handlers of bt.c *)

\* Slip: the flag is saved as its name, empty, says.
LoadedInfoInverted == IF nvm = NoKey THEN (IF bonds THEN 0 ELSE 1) ELSE nvm

\* bonding_info_load: a missing key is rebuilt from the bonding list.
LoadedInfo == IF nvm = NoKey THEN (IF bonds THEN 1 ELSE 0) ELSE nvm

\* __on_system_boot when gamepad_init finds no button held.
SystemBoot ==
    /\ Handling("boot")
    /\ Popped
    /\ nvm' = LoadedInfo
    /\ bonding_info' = LoadedInfo
    /\ conn_handle' = INVALID_HANDLE
    /\ byte1' = AdvHandle
    /\ StartAdv(INVALID_HANDLE, byte0, AdvHandle, LoadedInfo)
    /\ UNCHANGED <<pc, sig, link, report_ccc, subscribed, pairing, bonds, bonded, boot_to_dfu, resets>>

\* __on_system_boot when a button is held: gamepad_init erases the flash keys,
\* the bonding list among them, and resets.
FactoryReset ==
    /\ Handling("boot")
    /\ nvm' = NoKey
    /\ bonds' = FALSE
    /\ BtPowerOn
    /\ UNCHANGED resets

\* __on_connection_opened
ConnectionOpened ==
    /\ Handling("opened")
    /\ Popped
    /\ conn_handle' = Handle
    /\ byte0' = 0
    /\ byte1' = 0
    /\ report_ccc' = 0
    /\ bonded' = IsBond(Arg)
    /\ UNCHANGED <<mcu, pc, sig, link, adv, timing, subscribed, pairing, flashVars,
                   bonding_info, boot_to_dfu, resets>>

\* sl_bt_ota_dfu_on_event: the closed event of an OTA connection resets into
\* the bootloader.
ResetToDfu ==
    /\ mcu' = "dfu"
    /\ UNCHANGED <<conn_handle, adv, timing, report_ccc, byte0, byte1, bonded>>

\* Slip: start_adv is called before conn_handle becomes invalid.
RestartAdvEarly ==
    /\ ClearAdvConn
    /\ conn_handle' = INVALID_HANDLE
    /\ StartAdv(conn_handle, 0, 0, bonding_info)

\* __on_connection_closed
RestartAdv ==
    /\ ClearAdvConn
    /\ conn_handle' = INVALID_HANDLE
    /\ StartAdv(INVALID_HANDLE, 0, 0, bonding_info)

\* A closed event, in the OTA handler and then in bt.c's.
ConnectionClosed ==
    /\ Handling("closed")
    /\ Popped
    /\ IF boot_to_dfu THEN ResetToDfu ELSE RestartAdv
    /\ UNCHANGED <<pc, sig, link, subscribed, pairing, flashVars, bonding_info, boot_to_dfu, resets>>

\* Slip: the high byte keeps the whole interval.
HighByteWide(n) == n

HighByte(n) == n \div 256

\* __on_conn_param_updated
ConnParamUpdated ==
    /\ Handling("parameters")
    /\ Popped
    /\ byte0' = Arg % 256
    /\ byte1' = HighByte(Arg)
    /\ UNCHANGED <<firmwareVars, adv, timing, subscribed, pairing, flashVars, bonded,
                   bonding_info, boot_to_dfu, resets>>

\* Slip: only subscriptions are noted.
CharStatusOn ==
    /\ Handling("char_status")
    /\ Popped
    /\ report_ccc' = IF Arg = 0 THEN report_ccc ELSE Arg
    /\ UNCHANGED <<mcu, pc, sig, link, conn_handle, adv, timing, subscribed, pairing, flashVars,
                   appVars, resets>>

\* __on_gatt_server_char_status
CharStatus ==
    /\ Handling("char_status")
    /\ Popped
    /\ report_ccc' = Arg
    /\ UNCHANGED <<mcu, pc, sig, link, conn_handle, adv, timing, subscribed, pairing, flashVars,
                   appVars, resets>>

\* sl_bt_ota_dfu_on_event, then the ASSERT_MSG(0) of bt_gatt_server_evt_handler.
\* On a dead connection the response already fails sl_app_assert.
UserWriteRequest ==
    /\ Handling("user_write")
    /\ boot_to_dfu' = TRUE
    /\ link' = FALSE
    /\ subscribed' = 0
    /\ pairing' = "none"
    /\ evq' = IF link THEN Append(Tail(evq), Event("closed", 0)) ELSE Tail(evq)
    /\ mcu' = IF link THEN "not_handled" ELSE "app_assert"
    /\ UNCHANGED <<pc, sig, conn_handle, report_ccc, adv, timing, flashVars,
                   byte0, byte1, bonded, bonding_info, resets>>

\* __on_sm_bonding_confirm
BondingConfirm ==
    /\ Handling("confirm_bonding")
    /\ Popped
    /\ Asserting(/\ mcu' = IF link THEN mcu ELSE "call_failed"
                 /\ pairing' = IF pairing = "asked" THEN "confirmed" ELSE pairing
                 /\ UNCHANGED <<pc, flashVars, bonded, bonding_info>>)
    /\ UNCHANGED <<sig, link, conn_handle, report_ccc, adv, timing, subscribed, byte0, byte1,
                   boot_to_dfu, resets>>

\* __on_sm_bonded up to sl_bt_nvm_save
Bonded ==
    /\ Handling("bonded")
    /\ Popped
    /\ Asserting(/\ bonded' = IsBond(Arg)
                 /\ IF IsBond(Arg)
                      THEN bonding_info' = 1 /\ pc' = "save_bonded"
                      ELSE UNCHANGED <<bonding_info, pc>>
                 /\ UNCHANGED <<mcu, pairing, flashVars>>)
    /\ UNCHANGED <<sig, link, conn_handle, report_ccc, adv, timing, subscribed, byte0, byte1,
                   boot_to_dfu, resets>>

\* Slip: the list is emptied and bonding_info forgotten.
DeleteListOnly == bonds' = FALSE /\ pc' = "save_deleted" /\ UNCHANGED bonding_info

\* delete_bonding up to sl_bt_nvm_save.
DeleteBonding == bonds' = FALSE /\ pc' = "save_deleted" /\ bonding_info' = 0

\* __on_sm_bond_failed, up to sl_bt_nvm_save when the key is missing.
BondFailed ==
    /\ Handling("bonding_failed")
    /\ Popped
    /\ Asserting(/\ IF Arg = PIN_OR_KEY_MISSING
                      THEN DeleteBonding /\ UNCHANGED bonded
                      ELSE bonded' = FALSE /\ UNCHANGED <<bonds, bonding_info, pc>>
                 /\ UNCHANGED <<mcu, pairing, nvm>>)
    /\ UNCHANGED <<sig, link, conn_handle, report_ccc, adv, timing, subscribed, byte0, byte1,
                   boot_to_dfu, resets>>

\* sl_bt_nvm_save of bonding_info, and the end of the handler: once the bonding
\* list is deleted, the connection is no longer a bonded one.
SaveBondingInfo ==
    /\ Running
    /\ pc \in {"save_bonded", "save_deleted"}
    /\ nvm' = bonding_info
    /\ bonded' = (bonded /\ pc = "save_bonded")
    /\ pc' = "idle"
    /\ UNCHANGED <<mcu, sig, link, conn_handle, report_ccc, stackVars, bonds, byte0, byte1,
                   bonding_info, boot_to_dfu, resets>>

\* __on_adv_timeout
AdvTimeout ==
    /\ Handling("adv_timeout")
    /\ Popped
    /\ byte0' = 0
    /\ UNCHANGED <<firmwareVars, adv, timing, subscribed, pairing, flashVars, byte1, bonded,
                   bonding_info, boot_to_dfu, resets>>

-----------------------------------------------------------------------------
(* The button handler, as far as bt.c is concerned *)

\* The interrupt of an initialised button rings.
ButtonRings ==
    /\ Running
    /\ conn_handle # 0
    /\ sig' = TRUE
    /\ UNCHANGED <<mcu, pc, link, conn_handle, report_ccc, stackVars, flashVars, appVars, resets>>

\* The interrupt of a button finds the cache of btn_push_evt full.
ButtonStops ==
    /\ Running
    /\ conn_handle # 0
    /\ mcu' = "cache_full"
    /\ UNCHANGED <<pc, sig, link, conn_handle, report_ccc, stackVars, flashVars, appVars, resets>>

ButtonSignal ==
    /\ EnterButtonHandler
    /\ UNCHANGED <<stackVars, flashVars, appVars, resets>>

\* btn_update_handler without a connection calls start_adv.
ButtonStartsAdv ==
    /\ Running
    /\ pc = "btn_handler"
    /\ ~Connected
    /\ pc' = "idle"
    /\ StartAdv(conn_handle, byte0, byte1, bonding_info)
    /\ UNCHANGED <<sig, link, conn_handle, report_ccc, evq, subscribed, pairing, flashVars,
                   byte1, bonded, bonding_info, boot_to_dfu, resets>>

\* With one it sends a report, or only switches sticks.
ButtonReports ==
    /\ Running
    /\ pc = "btn_handler"
    /\ Connected
    /\ pc' = "btn_clear"
    /\ SendReport \/ UNCHANGED mcu
    /\ UNCHANGED <<sig, link, conn_handle, report_ccc, stackVars, flashVars, appVars, resets>>

ButtonDone ==
    /\ Running
    /\ pc = "btn_clear"
    /\ pc' = "idle"
    /\ UNCHANGED <<mcu, sig, link, conn_handle, report_ccc, stackVars, flashVars, appVars, resets>>

-----------------------------------------------------------------------------
BtInit ==
    /\ FirmwareInit
    /\ evq = <<Event("boot", 0)>>
    /\ adv = FALSE
    /\ timing = "unset"
    /\ subscribed = 0
    /\ pairing = "none"
    /\ byte0 = 0
    /\ byte1 = 0
    /\ bonded = FALSE
    /\ bonding_info = 0
    /\ boot_to_dfu = FALSE
    /\ bonds = FALSE
    /\ nvm = NoKey
    /\ resets = 0

OtherEvent ==
    \/ ConnectionOpened
    \/ ConnectionClosed
    \/ ConnParamUpdated
    \/ CharStatus
    \/ UserWriteRequest
    \/ BondingConfirm
    \/ Bonded
    \/ BondFailed
    \/ AdvTimeout

EventHandler == SystemBoot \/ FactoryReset \/ OtherEvent

ButtonPath == ButtonSignal \/ ButtonStartsAdv \/ ButtonReports \/ ButtonDone

BtNext ==
    \/ Radio /\ UNCHANGED <<appVars, resets>>
    \/ EventHandler
    \/ SaveBondingInfo
    \/ ButtonRings
    \/ ButtonStops
    \/ ButtonPath
    \/ PowerLoss

\* The super loop goes round: it takes events and signals, and ends handlers.
\* No button is held for ever, so booting ends.
BtFairness ==
    /\ SF_btVars(EventHandler)
    /\ SF_btVars(SystemBoot)
    /\ SF_btVars(ButtonSignal)
    /\ WF_btVars(SaveBondingInfo \/ ButtonStartsAdv \/ ButtonReports \/ ButtonDone)

BtSpec == BtInit /\ [][BtNext]_btVars /\ BtFairness

=============================================================================
