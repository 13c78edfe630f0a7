--------------------------- MODULE MCVM2Assembler ----------------------------
(* Sources for TLC: every sequence of up to MaxLines lines over a menu. *)
EXTENDS VM2Assembler

CONSTANTS MaxLines, L, M

Reg       == [form |-> "reg", label |-> None]
Hash      == [form |-> "hash", label |-> None]
Decimal   == [form |-> "decimal", label |-> None]
Hex       == [form |-> "hex", label |-> None]
At(l)     == [form |-> "at", label |-> l]
Name(l)   == [form |-> "name", label |-> l]

Label(l)           == [is |-> "label", name |-> l]
Iching(args)       == [is |-> "iching", ext |-> TRUE, args |-> args]
Plain              == [is |-> "iching", ext |-> FALSE, args |-> << >>]
Native(class, args) == [is |-> "native", class |-> class, args |-> args]

(* The forms that the assembly sources of evomorph/bootstrap and the tests *)
(* use: registers, #n and @label.                                          *)
UsualMenu == {Label(L), Label(M), Plain, Iching(<<Reg, Reg>>), Iching(<<Reg, Reg, Hash>>),
              Iching(<<At(L)>>), Iching(<<Reg, Reg, At(M)>>),
              Native("none", << >>), Native("compat", <<Reg, Hash>>),
              Native("imm", <<At(L)>>), Native("imm", <<Reg, Hash>>)}

(* What else the operand parsers take. *)
OddMenu == {Label(L), Iching(<<Reg, Reg>>), Iching(<<Reg, Reg, Decimal>>), Iching(<<Hex, Decimal, At(M)>>),
            Iching(<<Name(L)>>), Native("compat", <<Reg, At(L)>>), Native("one", <<Reg>>),
            Native("two", <<Reg, Reg>>),
            Native("compat", <<Reg, Decimal>>), Native("imm", <<Name(L)>>), Native("imm", <<Reg>>)}

Sequences(menu) == UNION {[1..n -> menu] : n \in 0..MaxLines}

Defines(source, l) == \E i \in DOMAIN source : source[i] = Label(l)

(* Sources that define the labels they name. *)
Closed(source) ==
  \A i \in DOMAIN source : source[i].is # "label" =>
    \A k \in DOMAIN source[i].args :
      source[i].args[k].label # None => Defines(source, source[i].args[k].label)

UsualSources == {source \in Sequences(UsualMenu) : Closed(source)}
OddSources   == Sequences(OddMenu)

AllSources == UsualSources \cup OddSources
=============================================================================
