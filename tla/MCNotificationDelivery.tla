----------------------- MODULE MCNotificationDelivery -----------------------
(* Small instances of NotificationDelivery for TLC.                         *)
EXTENDS NotificationDelivery

\* 15 minutes, then an hour: scaled down to one and two units.
MCRetryDelays == <<1, 2>>

CONSTANTS a, b, c

\* a and b have the same last four digits.
MCMaskedId == [k \in {a, b, c} |-> IF k = c THEN "*0002" ELSE "*0001"]

MCBoth == {{a, b}}
MCOneOrBoth == {{a}, {a, b}}
MCAnyConfig == {{}, {a}, {a, b}}
MCMaskConfigs == {{}, {a}, {c}, {a, b}, {b, c}}
=============================================================================
