----------------------------- MODULE MCFigures -----------------------------
(***************************************************************************)
(* StopLoss and Wallets for TLC in one run: a behaviour is about one of    *)
(* the two, and the other stays in an initial state.                       *)
(***************************************************************************)
EXTENDS StopLoss, Wallets

VARIABLE topic

Plain == [custom |-> FALSE, afterFill |-> FALSE, trailing |-> FALSE, positive |-> None,
          offset |-> 0, onlyOffset |-> FALSE]
MCSettings ==
    {Plain, [Plain EXCEPT !.trailing = TRUE],
     [Plain EXCEPT !.trailing = TRUE, !.positive = 1, !.offset = 1],
     [Plain EXCEPT !.trailing = TRUE, !.positive = 1, !.offset = 1, !.onlyOffset = TRUE],
     [Plain EXCEPT !.custom = TRUE],
     [Plain EXCEPT !.custom = TRUE, !.trailing = TRUE],
     [Plain EXCEPT !.custom = TRUE, !.afterFill = TRUE]}

\* An unlimited stake, a fixed one beside limit orders, and an account with
\* available_capital.
Configured(ratio, available, stake, market) ==
    [ratio |-> ratio, available |-> available, stake |-> stake, market |-> market]
MCConfig ==
    {Configured(100, Unset, Unset, TRUE), Configured(50, Unset, 150, FALSE),
     Configured(50, 200, Unset, TRUE)}

FInit ==
    /\ Init /\ WInit
    /\ \/ topic = "stop" /\ config = Configured(100, Unset, Unset, TRUE)
       \/ topic = "account" /\ ~short /\ settings = Plain /\ stoploss = 1 /\ trade.rate = 10

FNext ==
    /\ UNCHANGED topic
    /\ \/ topic = "stop" /\ Next /\ UNCHANGED wvars
       \/ topic = "account" /\ WNext /\ UNCHANGED vars

FSpec == FInit /\ [][FNext]_<<vars, wvars, topic>>

=============================================================================
