CONSTANTS
    b1 = b1
    b2 = b2
    Byte = {0, 1}
    Size = 1
    Width = 2
    WorkerAnswers <- WorkerMay
    LcdAnswers <- LcdMay
    Burns = {b1, b2}
    MintRecipient <- OwnAddress
    Trusted = {b1, b2}
    Calls = {c1, c2}
    NoBurn = NoBurn
    HoldTime = 1
    Retries = 2
    Failures = {"db", "rpc", "evm", "disconnect", "stop"}
    MaxFaults = 2
SPECIFICATION FairSpec
INVARIANTS TypeOK RecipientsAgree VagueAfterRetries
PROPERTIES RecipientIsFinal UnknownGetsResolved
