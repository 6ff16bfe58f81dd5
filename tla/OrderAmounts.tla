------------------------------ MODULE OrderAmounts ------------------------------
(***************************************************************************)
(* The arithmetic of a copied order: how much a whale's trade is copied     *)
(* with (strategy.rs), at what limit (utils.rs, order_executor.rs), how the *)
(* order is aligned to the market's tick and what it is worth               *)
(* (clob_sdk_orders.rs), and when a position is left (position_monitor.rs). *)
(*                                                                          *)
(* Prices are in thousandths of a dollar, amounts of money in micro-dollars *)
(* and, while they are only planned, in hundredths of a micro-dollar, which *)
(* is as fine as a whole percentage of a micro-dollar is.  The program's    *)
(* binary floating point is taken to be exact at these sizes.               *)
(*                                                                          *)
(* A definition named Faulty... is a mistake the next definition could have *)
(* made; nothing uses it.                                                   *)
(***************************************************************************)
EXTENDS Integers

Micros == 1000          \* micro-dollars in a thousandth
Lowest == 10            \* the band of clamp_price
Highest == 990

Low(a, b) == IF a <= b THEN a ELSE b
High(a, b) == IF a <= b THEN b ELSE a

-----------------------------------------------------------------------------
(* strategy.rs: cfg is [strategy, percent, fixed, multiplier, least, most,  *)
(* leastShares, threshold, low, high], money in micro-dollars.              *)

\* min + (max - min) / (1 + notional/threshold): exp(-ln(1 + r)) is 1/(1 + r).  Hundredths of
\* a percent, rounded down, of which the copy then takes that of whole hundreds.
AdaptivePercent(cfg, notional) ==
  IF cfg.threshold <= 0 THEN cfg.low * 100
  ELSE cfg.low * 100 + ((cfg.high - cfg.low) * 100 * cfg.threshold) \div (cfg.threshold + notional)

BaseUsd(cfg, notional) ==
  CASE cfg.strategy = "Percentage" -> notional * cfg.percent
    [] cfg.strategy = "Fixed" -> cfg.fixed * 100
    [] cfg.strategy = "Adaptive" -> (notional \div 100) * AdaptivePercent(cfg, notional)

CopyUsd(cfg, notional) == Low(BaseUsd(cfg, notional) * cfg.multiplier, cfg.most * 100)

\* A trade is [side, shares, usd]: whole shares, micro-dollars.
Sized(cfg, trade) ==
  /\ trade.shares >= cfg.leastShares
  /\ trade.usd > 0
  /\ CopyUsd(cfg, trade.usd) >= cfg.least * 100

-----------------------------------------------------------------------------
(* utils.rs, order_executor.rs                                              *)

\* clamp_price: the nearest thousandth, within the band.
ClampPrice(dividend, divisor) == High(Lowest, Low(Highest, (2 * dividend + divisor) \div (2 * divisor)))

\* The whale's price, usd / shares, and 0 when it has no shares.
LimitFor(trade, buffer) ==
  IF trade.shares = 0 THEN ClampPrice(buffer, 1)
  ELSE ClampPrice(trade.usd + trade.shares * Micros * buffer, trade.shares * Micros)

\* The number of shares is rounded to the nearest one.
FaultyShares(usd, price) == (2 * usd + price * Micros * 100) \div (2 * price * Micros * 100)

\* usd_to_shares: whole shares, rounded down.
Shares(usd, price) == usd \div (price * Micros * 100)

\* micros_from_f64: a positive whole number of micro-dollars.
WholeMicros(usd) == usd > 0 /\ usd % 100 = 0

-----------------------------------------------------------------------------
(* clob_sdk_orders.rs                                                       *)

\* A buyer's price goes down to a tick, a seller's up.
AlignPrice(price, tick, side) ==
  CASE price % tick = 0 -> price
    [] price % tick # 0 /\ side = "Buy" -> price - (price % tick)
    [] price % tick # 0 /\ side = "Sell" -> price + (tick - (price % tick))

\* prepare_fok: a price on the market's grid, a positive size.
Prepared(price, tick, side, shares) ==
  /\ AlignPrice(price, tick, side) \in tick .. 1000 - tick
  /\ shares > 0

Worth(shares, price) == shares * price * Micros

-----------------------------------------------------------------------------
(* position_monitor.rs, for the long positions that entries open             *)

\* pnl_pct against the two thresholds, in percent of the entry price.
CheckExit(entry, mid, takeProfit, stopLoss) ==
  LET gain == (mid - entry) * 100 IN
  CASE gain >= entry * takeProfit -> "TakeProfit"
    [] gain < entry * takeProfit /\ gain <= - (entry * stopLoss) -> "StopLoss"
    [] OTHER -> "None"

\* The buffer is what a seller may lose against the midpoint.
ExitLimit(mid, buffer) == ClampPrice(mid - buffer, 1)
=============================================================================
