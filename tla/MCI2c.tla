------------------------------- MODULE MCI2c -------------------------------
(* Bytes of two bits, a device at address 10, a quarter bit of three clocks.
   main's program, and every pair of calls the driver offers. *)
EXTENDS I2cDriver, TLC
MCDevAddr == 0 :> 1 @@ 1 :> 0
B(i, j) == 0 :> i @@ 1 :> j
ReadArray(i, n) == [op |-> "read", device |-> MCDevAddr, index |-> i, size |-> n]
WriteArray(i, d) == [op |-> "write", device |-> MCDevAddr, index |-> i, data |-> d]
Main == <<ReadArray(B(1, 1), 2), WriteArray(B(1, 1), "word|1"),
          WriteArray(B(0, 1), <<B(1, 0), B(1, 1)>>), WriteArray(B(0, 0), <<B(0, 1), B(1, 1)>>)>>
Api == {WriteArray(B(1, 0), <<B(0, 1)>>), ReadArray(B(1, 0), 1), ReadArray(B(0, 1), 3),
        [ReadArray(B(1, 0), 1) EXCEPT !.device = B(0, 1)],
        [op |-> "configure", irq |-> TRUE], [op |-> "configure", irq |-> FALSE]}
MCPrograms == {Main} \cup {<<a, b>> : a, b \in Api}
=============================================================================
