------------------------------- MODULE MCJob -------------------------------
(***************************************************************************)
(* The process for TLC: files, command lines, threads.                     *)
(***************************************************************************)
EXTENDS JobProps, TLC

a == <<"a">>
b == <<"b">>
abz == <<"a", "bz2">>
atbz == <<"a", "tbz">>
atz == <<"a", "tz2">>
four == <<"4">>

Plain(f) == File(f, FALSE, TRUE)
Packed1(f) == File(f, TRUE, TRUE)

MCNumber == (four :> 4)

(* Plain files; archives, two of which have the same output; a name that   *)
(* is taken, a file with a second link and one that is not regular.        *)
MCDisks ==
  {[f \in {a, b} |-> Plain(f)],
   [f \in {a, abz, atbz, atz} |-> IF f = a THEN Plain(f) ELSE Packed1(f)],
   [f \in {atbz, atz, four} |-> IF f = four THEN Plain(f) ELSE Packed1(f)],
   [f \in {a, b} |-> IF f = a THEN [Plain(f) EXCEPT !.linked = TRUE]
                              ELSE [Plain(f) EXCEPT !.regular = FALSE]]}

Opt(l) == Short(<<l>>, <<>>)

MCCommandLines ==
  {<<"lbzip2", <<Operand(a), Operand(b)>>>>,
   <<"lbzip2", <<Operand(a), Operand(a)>>>>,
   <<"lbzip2", <<Short(<<"k", "n">>, <<>>), Operand(four), Operand(a)>>>>,
   <<"lbzip2", <<Short(<<"n">>, four), Operand(a), Long("stdout")>>>>,
   <<"lbzip2", <<Opt("f"), Operand(a), Operand(abz)>>>>,
   <<"lbzip2", <<Opt("t"), Opt("z"), Operand(b)>>>>,
   <<"lbzip2", <<Operand(a), Opt("n")>>>>,
   <<"lbzip2", <<Short(<<"t", "c">>, <<>>), Operand(abz)>>>>,
   <<"lbzip2", <<Opt("V"), Operand(a)>>>>,
   <<"lbzip2", <<Long("decompress"), DashDash, Operand(atbz), DashDash>>>>,
   <<"lbzip2", <<Short(<<"c", "d", "f">>, <<>>), Operand(abz), Operand(a)>>>>,
   <<"bunzip2", <<Operand(atbz), Operand(atz)>>>>,
   <<"bunzip2", <<Long("test"), Operand(abz)>>>>,
   <<"bzcat", <<Operand(abz), Operand(a)>>>>,
   <<"bzcat", <<>>>>}

MCSubThreads == {"source", "sink", "worker"}
MCWriters == {"sink"}
=============================================================================
