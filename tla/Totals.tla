------------------------------- MODULE Totals -------------------------------
(* Sums of amounts, as libwally's wally_tx_get_total_output_satoshi has them. *)
EXTENDS Naturals, Sequences

\* The sums of the first n amounts, one at a time.
Sums(amounts) ==
  LET sum[n \in 0..Len(amounts)] == IF n = 0 THEN 0 ELSE sum[n - 1] + amounts[n]
  IN sum

Total(amounts) == Sums(amounts)[Len(amounts)]

=============================================================================
