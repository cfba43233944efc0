------------------------- MODULE MCNotificationOutbox -------------------------
(* Two tiers of one alert. *)
EXTENDS NotificationOutbox, TLC

CONSTANTS a1, i1, i2

MCAlertOf == i1 :> a1 @@ i2 :> a1
Symmetry == Permutations(Drains) \union Permutations(Intents)

=============================================================================
