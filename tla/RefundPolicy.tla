---------------------------- MODULE RefundPolicy ----------------------------
(***************************************************************************)
(* The tiered cancellation policy of backend/src/booking/refund-policy.ts: *)
(* how many of the paid cents go back as store credit.                     *)
(***************************************************************************)
EXTENDS Integers

Kinds == {"CANCEL", "NO_SHOW"}

\* Percent kept.  The boundary is inclusive: exactly 24 hours is still free.
RetainedPct(kind, hoursUntilStart) ==
  IF kind = "NO_SHOW" THEN 25 ELSE IF hoursUntilStart >= 24 THEN 0 ELSE 20

\* Math.round(amount * pct): half a cent is rounded up.
RetainedCents(amount, kind, hoursUntilStart) ==
  (amount * RetainedPct(kind, hoursUntilStart) + 50) \div 100

CreditCents(amount, kind, hoursUntilStart) ==
  amount - RetainedCents(amount, kind, hoursUntilStart)
=============================================================================
