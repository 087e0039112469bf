----------------------------- MODULE MCRefresh -----------------------------
\* A finite instance of Refresh.
EXTENDS Refresh

CONSTANTS m1, m2, m3, i1, k1, k2

\* Two mounts whose names differ in what a unique id does not keep.
SlugOf(item) == IF item = m2 THEN m1 ELSE item

All == [include |-> {}, exclude |-> {}]

Pi == [
    id |-> k1, temperatures |-> <<Absent, 45>>,
    mounts |-> {m1}, interfaces |-> {i1},
    services |-> {}, tailscale |-> TRUE,
    mountFilter |-> All, interfaceFilter |-> All,
    previews |-> 2, packages |-> 2, failed |-> 0, bytes |-> 1]

\* The entry's host, and with a disk more at the limit of the contract.
Larger == [Pi EXCEPT !.mounts = {m2, m3}, !.temperatures = <<300000, 0>>, !.bytes = 2]

\* Refused: a disk too many, frost, an answer too large, no machine id.
TooMany == [Pi EXCEPT !.mounts = {m1, m2, m3}]
Frost == [Pi EXCEPT !.temperatures = <<-60, -5, 45>>]
TooLarge == [Pi EXCEPT !.bytes = 3]
Nameless == [Pi EXCEPT !.id = Absent]

\* A disk too many but for the filter, and another machine at the address.
Filtered == [TooMany EXCEPT !.mountFilter = [include |-> {m1, m2}, exclude |-> {m1}]]
Stranger == [Pi EXCEPT !.id = k2]

SomeHosts == {Pi, Larger, TooMany, Frost, TooLarge, Nameless, Filtered, Stranger}
=============================================================================
