----------------------------- MODULE Exceptions -----------------------------
(***************************************************************************)
(* turbobt/substrate/exceptions.py and subtensor/exceptions.py: which      *)
(* class a caller of rpc() sees for an error of the node.                  *)
(***************************************************************************)
EXTENDS Integers

\* The classes for errors of the chain, those of pallets and those of the checks
\* before a transaction is taken.
ErrorClasses ==
    {"SubtensorException", "ColdkeyInSwapSchedule", "StakeAmountTooLow",
     "BalanceTooLow", "SubnetDoesntExist", "HotkeyAccountDoesntExist",
     "HotKeyAccountNotExists", "NotEnoughStakeToWithdraw", "RateLimitExceeded",
     "InsufficientLiquidity", "SlippageTooHigh", "TransferDisallowed",
     "HotKeyNotRegisteredInNetwork", "InvalidIpAddress",
     "ServingRateLimitExceeded", "InvalidPort", "BadRequest",
     "NetworkTxRateLimitExceeded", "NotEnoughBalanceToStake",
     "CommitRevealDisabled", "CommittingWeightsTooFast", "AmountTooLow",
     "CommitmentSetRateLimitExceeded", "HotKeyAlreadyRegisteredInSubNet"}

\* SUBSTRATE_CUSTOM_ERRORS, by the number after "Custom error: ".
CustomErrors ==
    [n \in 0 .. 13 \cup {255} |->
        IF n = 255 THEN "BadRequest"
        ELSE <<"ColdkeyInSwapSchedule", "StakeAmountTooLow", "BalanceTooLow",
               "SubnetDoesntExist", "HotkeyAccountDoesntExist",
               "NotEnoughStakeToWithdraw", "RateLimitExceeded",
               "InsufficientLiquidity", "SlippageTooHigh", "TransferDisallowed",
               "HotKeyNotRegisteredInNetwork", "InvalidIpAddress",
               "ServingRateLimitExceeded", "InvalidPort">>[n + 1]]

\* The errors of the node: data is that number, NoNumber for another text or
\* for an error without data.
NoNumber == -1

InvalidTransaction == 1010
BlockNotFound      == 4003

\* Mutant of CustomClass: `SUBSTRATE_CUSTOM_ERRORS.get(...)` of 13 rows.
CustomClassOfSome(n) == IF n \in 0 .. 13 THEN CustomErrors[n] ELSE "SubtensorException"

\* Subtensor.rpc(): `except KeyError` is an unknown number, and no data.
CustomClass(n) == IF n \in DOMAIN CustomErrors THEN CustomErrors[n]
                  ELSE "SubtensorException"

\* Substrate.rpc(), and what Subtensor.rpc() makes of a CustomTransactionError.
ClassOf(error) ==
    CASE error.code = InvalidTransaction -> CustomClass(error.data)
      [] error.code = BlockNotFound      -> "UnknownBlock"
      [] OTHER                           -> "SubstrateException"

=============================================================================
