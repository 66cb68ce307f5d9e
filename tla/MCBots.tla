-------------------------------- MODULE MCBots --------------------------------
(***************************************************************************)
(* An instance of Bots for TLC: two scores, whose fair prices are 3.00 and  *)
(* 2.00 for the batting team and 1.50 and 2.00 for the other, and one user  *)
(* who takes half of a lay quote.                                           *)
(***************************************************************************)
EXTENDS Bots

CONSTANTS botA, botB, user, batting, bowling

TwoScores ==
    {[needed |-> 50, balls |-> 7, wickets |-> 10], [needed |-> 50, balls |-> 21, wickets |-> 10]}

Quotes(rounds) ==
    {QuoteOf(n, selection, bot, score) :
        n \in rounds, selection \in {batting, bowling}, bot \in {botA, botB}, score \in TwoScores}

UserRequests ==
    {[user |-> user, selection |-> batting, side |-> "BACK", price |-> 150, stake |-> 1, key |-> 0]}

QuotesAndUser == Quotes(1 .. MaxRounds) \cup UserRequests
===============================================================================
