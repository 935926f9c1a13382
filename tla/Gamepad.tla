------------------------------ MODULE Gamepad ------------------------------
(***************************************************************************)
(* The firmware put together: the super loop of main.c and sl_bluetooth.c  *)
(* pops events for bt.c and signals for button.c, the GPIO interrupt cuts  *)
(* in between, and the radio, the fingers and the power supply do what     *)
(* they like.                                                              *)
(***************************************************************************)
EXTENDS Bt, Button

gamepadVars == <<btVars, btnVars>>

\* What only bt.c and the stack touch.
btOnlyVars == <<stackVars, flashVars, appVars, resets>>

GamepadInit == BtInit /\ ButtonInit

\* __on_system_boot: gamepad_init enables the buttons and goes on when none is held.
BootReleased == SystemBoot /\ ArmButtons

\* A button held while booting.
BootHeld ==
    /\ \E b \in Buttons : ~high[b]
    /\ FactoryReset
    /\ ButtonPowerOn

\* The other events: an interrupt that is running returns first.
OtherHandler ==
    /\ isr = 0
    /\ OtherEvent \/ SaveBondingInfo
    /\ UNCHANGED btnVars

\* __on_external_signals and btn_update_handler.
SignalPopped == HandlerEnter /\ ButtonSignal

\* Slip: the disconnected branch does not call start_adv.
UpdateIgnored == HandlerDisconnected /\ UNCHANGED <<mcu, btOnlyVars>>

UpdateDisconnected == HandlerDisconnected /\ ButtonStartsAdv
UpdateReads == HandlerRead /\ UNCHANGED btOnlyVars
UpdateReports == HandlerReport /\ ButtonReports
UpdateClears == HandlerClear /\ ButtonDone

SuperLoop ==
    \/ BootReleased
    \/ BootHeld
    \/ OtherHandler
    \/ SignalPopped
    \/ UpdateDisconnected
    \/ UpdateReads
    \/ UpdateReports
    \/ UpdateClears

RadioStep == Radio /\ UNCHANGED <<appVars, resets, btnVars>>

PinOrInterrupt ==
    /\ Interrupt \/ \E b \in Buttons : Edge(b)
    /\ UNCHANGED btOnlyVars

PowerCycle == PowerLoss /\ ButtonPowerOn

GamepadNext == SuperLoop \/ RadioStep \/ PinOrInterrupt \/ PowerCycle

\* The super loop goes round and interrupts are taken, as in Bt and Button.  No
\* button is held for ever while the gamepad boots.
GamepadFairness ==
    /\ SF_gamepadVars(BootReleased)
    /\ SF_gamepadVars(SignalPopped)
    /\ SF_gamepadVars(OtherHandler)
    /\ SF_gamepadVars(UpdateDisconnected \/ UpdateReads \/ UpdateReports \/ UpdateClears)
    /\ \A b \in Buttons : SF_gamepadVars(IsrEnter(b) /\ UNCHANGED btOnlyVars)
    /\ WF_gamepadVars((IsrPush \/ IsrOverflow) /\ UNCHANGED btOnlyVars)

GamepadSpec == GamepadInit /\ [][GamepadNext]_gamepadVars /\ GamepadFairness

=============================================================================
