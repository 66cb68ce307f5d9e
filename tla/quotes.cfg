SPECIFICATION BotsSpec
CHECK_DEADLOCK FALSE
CONSTANTS
    botA = botA
    botB = botB
    user = user
    batting = batting
    bowling = bowling
    Users = {botA, botB, user}
    BotA = botA
    BotB = botB
    Batting = batting
    Bowling = bowling
    Requests <- QuotesAndUser
    Winners = {batting}
    Grant = 5
    Offset = 1
    Stake = 2
    Scores <- TwoScores
    MaxRounds = 2
INVARIANTS
    BotsNeverTrade
    QuotesReplaced
    CoveredIfHeld
