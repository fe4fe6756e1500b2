-------------------------------- MODULE Fifo --------------------------------
(***************************************************************************)
(* The named pipes the programs under FIFO/ talk over.  They belong to the *)
(* kernel: modelled from the calls the programs make.                      *)
(*                                                                         *)
(* open() waits until somebody has the other end open, or waits in open()  *)
(* for it.  From then on the process counts as one of the FIFO's readers   *)
(* or writers, also while it waits.  What is in a FIFO is lost when its     *)
(* last end is closed, a read finds end of file when the FIFO is empty and *)
(* has no writer, and a write without a reader raises SIGPIPE.  The        *)
(* kernel's 64 kilobytes are never full here.                              *)
(***************************************************************************)
EXTENDS Integers, Sequences

VARIABLES data,          \* data[f]: what is in FIFO f, oldest first
          rd, wr,        \* rd[f], wr[f]: processes with a reading, writing end
          blocked        \* <<p, f>>: p still waits in open() of f

fvars == <<data, rd, wr, blocked>>

mkfifos(names) == /\ data = [f \in names |-> <<>>]
                  /\ rd = [f \in names |-> {}] /\ wr = [f \in names |-> {}]
                  /\ blocked = {}

\* Whoever opens one end wakes those who wait at the other one.
Waits(p, f, others) == IF others = {} THEN blocked \cup {<<p, f>>}
                                      ELSE blocked \ (others \X {f})
open_rd(p, f) == /\ rd' = [rd EXCEPT ![f] = @ \cup {p}]
                 /\ blocked' = Waits(p, f, wr[f])
                 /\ UNCHANGED <<data, wr>>
open_wr(p, f) == /\ wr' = [wr EXCEPT ![f] = @ \cup {p}]
                 /\ blocked' = Waits(p, f, rd[f])
                 /\ UNCHANGED <<data, rd>>
Opened(p, f) == <<p, f>> \notin blocked

\* p closes its ends of the FIFOs fs, or is terminated.
close(p, fs) ==
  /\ rd' = [f \in DOMAIN rd |-> IF f \in fs THEN rd[f] \ {p} ELSE rd[f]]
  /\ wr' = [f \in DOMAIN wr |-> IF f \in fs THEN wr[f] \ {p} ELSE wr[f]]
  /\ data' = [f \in DOMAIN data |-> IF rd'[f] \cup wr'[f] = {} THEN <<>> ELSE data[f]]
  /\ blocked' = blocked \ ({p} \X fs)

\* A read of up to n cells; end of file; a write of the cells s; no reader.
Least(m, n) == IF m <= n THEN m ELSE n
Chunk(f, n) == SubSeq(data[f], 1, Least(n, Len(data[f])))
read(f, n) == /\ data[f] # <<>>
              /\ data' = [data EXCEPT ![f] = SubSeq(@, Least(n, Len(@)) + 1, Len(@))]
              /\ UNCHANGED <<rd, wr, blocked>>
Eof(f) == data[f] = <<>> /\ wr[f] = {}
write(f, s) == /\ rd[f] # {}
               /\ data' = [data EXCEPT ![f] = @ \o s]
               /\ UNCHANGED <<rd, wr, blocked>>
Broken(f) == rd[f] = {}
=============================================================================
