---------------------------- MODULE ButtonProps ----------------------------
(***************************************************************************)
(* What button.c promises the rest of the firmware, and what its comments  *)
(* say of it.                                                              *)
(***************************************************************************)
EXTENDS Button

\* What the duplicate filter of btn_push_evt really guarantees: two equal events
\* in the cache are separated by the event its backward search stops at.
Spaced(c) ==
    \A i, j \in DOMAIN c :
        i < j /\ c[i] = c[j] => \E k \in i + 1 .. j - 1 : c[k] = ExpPreEvt(c[i])

SpacedRepeats == Spaced(cache)

\* No level is missed: while a pin differs from what its callback last read, an
\* interrupt for it is pending or is running and has yet to read the pin.  The
\* dispatcher clears the flag before it calls the callback for this reason.
LevelTracked ==
    \A b \in Buttons : high[b] # last[b] => irq[b] \/ isr = b

\* No doorbell is missed: a cached event the handler has not looked at has a
\* signal pending, or the handler is on its way to look.
SignalCoversPush ==
    unheard => sig \/ pc \in ButtonHandler

\* An edge of a pin leads to a run of btn_update_handler, unless the program
\* stops or restarts first.
EdgeReachesHandler ==
    \A b \in Buttons : irq[b] ~> pc = "btn_handler" \/ ~Running \/ ~armed

\* While a host stays connected, the handler empties the cache again and again.
CacheDrains ==
    [](sig /\ Connected => <>(cache = <<>> \/ ~Connected \/ ~Running))

-----------------------------------------------------------------------------
(* What the source says and the code does not do *)

\* ASSERT(btn_evt.num != BTN_EVT_CACHE_SIZE): a push always finds room.
CacheHasRoom == isr # 0 => Len(cache) # CacheSize

\* button_interrupt's note: the signal stands for a state change, so a connected handler
\* that runs on it finds an event in the cache.
SignalHasEvent == pc = "btn_handler" /\ Connected /\ seen = NotRead => cache # <<>>

=============================================================================
