------------------------------- MODULE SpiMaster -------------------------------
(***************************************************************************)
(* processor_spi_0.v: the SPI master behind its registers.  A step is one  *)
(* bus access of the processor or one event of the shifter; an access      *)
(* takes two clocks, so a byte in the holding register has always moved to *)
(* a free shifter before the next access.  The eight shifts of a byte are  *)
(* one event, Finish, in which the bytes of master and slave change        *)
(* places.                                                                 *)
(***************************************************************************)
EXTENDS Naturals

VARIABLES tx_holding, tx_holding_primed,
          shift_reg,        \* the byte being sent
          transmitting,
          stateZero,        \* no bit of the byte has been sent yet, or all have
          rx_holding, RRDY,
          ROE, TOE,         \* receive and transmit overrun
          SSO               \* force the slave select

vars == <<tx_holding, tx_holding_primed, shift_reg, transmitting, stateZero,
          rx_holding, RRDY, ROE, TOE, SSO>>

Init == /\ tx_holding = 0
        /\ tx_holding_primed = FALSE
        /\ shift_reg = 0
        /\ transmitting = FALSE
        /\ stateZero = TRUE
        /\ rx_holding = 0
        /\ RRDY = FALSE
        /\ ROE = FALSE
        /\ TOE = FALSE
        /\ SSO = FALSE

TRDY == ~(transmitting /\ tx_holding_primed)
TMT  == ~transmitting /\ ~tx_holding_primed

\* write_shift_reg
LoadPending == tx_holding_primed /\ ~transmitting

Selected == SSO \/ (transmitting /\ ~stateZero)
-----------------------------------------------------------------------------
\* The processor writes txdata; a write that finds no room is dropped.
WriteTx(byte) ==
  /\ ~LoadPending
  /\ IF TRDY THEN /\ tx_holding' = byte
                  /\ tx_holding_primed' = TRUE
                  /\ UNCHANGED TOE
             ELSE /\ TOE' = TRUE
                  /\ UNCHANGED <<tx_holding, tx_holding_primed>>
  /\ UNCHANGED <<shift_reg, transmitting, stateZero, rx_holding, RRDY, ROE, SSO>>

\* The processor reads rxdata; the value is rx_holding.
ReadRx == /\ ~LoadPending
          /\ RRDY' = FALSE
          /\ UNCHANGED <<tx_holding, tx_holding_primed, shift_reg, transmitting,
                         stateZero, rx_holding, ROE, TOE, SSO>>

\* The processor writes control; of its bits only SSO is used.
WriteControl(sso) == /\ ~LoadPending
                     /\ SSO' = sso
                     /\ UNCHANGED <<tx_holding, tx_holding_primed, shift_reg, transmitting,
                                    stateZero, rx_holding, RRDY, ROE, TOE>>

Load == /\ LoadPending
        /\ shift_reg' = tx_holding
        /\ transmitting' = TRUE
        /\ tx_holding_primed' = FALSE
        /\ UNCHANGED <<tx_holding, stateZero, rx_holding, RRDY, ROE, TOE, SSO>>

\* The first of the 18 steps of state.
Shift == /\ transmitting
         /\ stateZero
         /\ stateZero' = FALSE
         /\ UNCHANGED <<tx_holding, tx_holding_primed, shift_reg, transmitting,
                        rx_holding, RRDY, ROE, TOE, SSO>>

\* The last one, and transaction_primed: reply is what came in on MISO.
Finish(reply) == /\ transmitting
                 /\ ~stateZero
                 /\ stateZero' = TRUE
                 /\ transmitting' = FALSE
                 /\ rx_holding' = reply
                 /\ RRDY' = TRUE
                 /\ ROE' = (ROE \/ RRDY)
                 /\ UNCHANGED <<tx_holding, tx_holding_primed, shift_reg, TOE, SSO>>
=============================================================================
