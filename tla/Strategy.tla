------------------------------- MODULE Strategy -------------------------------
(***************************************************************************)
(* The two decision rules of the host: ReflexEngine.evaluate               *)
(* (host/strategy/reflex.py), which sees the book only, and Arbiter.decide *)
(* (host/strategy/arbiter.py), which joins the reflex action with the      *)
(* score the FPGA returned.  Both are functions of their arguments; the    *)
(* packet counter of the engine is never read and is left out.             *)
(***************************************************************************)
EXTENDS Integers

CONSTANTS
    SpreadLimit,     \* 1000 in reflex.py
    MaxInventory,    \* 100 in reflex.py
    ScoreThreshold   \* 200 in arbiter.py

ASSUME StrategyAssumption ==
    /\ SpreadLimit \in Nat
    /\ MaxInventory \in Nat
    /\ ScoreThreshold \in Nat

ReflexAction == {"NONE", "CANCEL_ALL", "TAKE_LIQUIDITY", "WIDEN_SPREADS"}
Decision == {"HOLD", "BUY", "SELL", "CANCEL"}

Magnitude(n) == IF n < 0 THEN -n ELSE n

(* Slip: a spread just beyond the limit is let through. *)
EvaluateLate(crossed, known, spread, inventory) ==
    CASE crossed -> "TAKE_LIQUIDITY"
      [] ~ crossed /\ known /\ spread > SpreadLimit + 1 -> "WIDEN_SPREADS"
      [] OTHER -> "NONE"

(* The rules in their order: the first that applies decides.  `known' says  *)
(* that both sides of the book have a best price.                           *)
Evaluate(crossed, known, spread, inventory) ==
    CASE crossed -> "TAKE_LIQUIDITY"
      [] ~ crossed /\ known /\ spread > SpreadLimit -> "WIDEN_SPREADS"
      [] ~ crossed /\ ~ (known /\ spread > SpreadLimit)
            /\ Magnitude(inventory) > MaxInventory -> "CANCEL_ALL"
      [] OTHER -> "NONE"

(* Only CANCEL_ALL and TAKE_LIQUIDITY override the score. *)
Decide(act, score) ==
    CASE act = "CANCEL_ALL" -> "CANCEL"
      [] act = "TAKE_LIQUIDITY" -> "BUY"
      [] act \in {"NONE", "WIDEN_SPREADS"} /\ score > ScoreThreshold -> "BUY"
      [] act \in {"NONE", "WIDEN_SPREADS"} /\ score < -ScoreThreshold -> "SELL"
      [] OTHER -> "HOLD"

=============================================================================
