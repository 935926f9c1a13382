--------------------------- MODULE GamepadProps ---------------------------
(***************************************************************************)
(* What the whole firmware promises.                                       *)
(***************************************************************************)
EXTENDS Gamepad, BtProps, ButtonProps

\* bt.c meets, in the whole firmware, the buttons its own model allows for.
ImplementsBt == BtInit /\ [][BtNext]_btVars

\* button.c meets the bt.c its own model allows for: start_adv never fails in
\* its hands, and the shared state changes only as that model says.
ImplementsButton == ButtonInit /\ [][ButtonNext]_buttonVars

\* Before boot bt is all zero, so it looks connected on handle 0, and
\* gamepad's callbacks are null: no button is handled before both are set up,
\* across power losses and factory resets.
HandledOnlyAfterBoot ==
    isr # 0 \/ sig \/ pc \in ButtonHandler => armed /\ conn_handle # 0

\* A pin edge while the gamepad is quiet makes it advertise: through the
\* interrupt, the signal and the handler, whatever the cache holds.
EdgeWakes ==
    (\E b \in Buttons : irq[b]) /\ Running /\ conn_handle = INVALID_HANDLE /\ byte0 = 0
        ~> adv \/ ~Running \/ ~Booted

=============================================================================
