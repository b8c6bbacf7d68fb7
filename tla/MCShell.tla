------------------------------ MODULE MCShell ------------------------------
(* Instances of the shell for TLC.                                         *)
EXTENDS Shell

Alphabet == {"t", Blank, NewLine, "dq", Escape, "&", "|", ">", Hash}

(* Every text of up to four characters, without and with a new line ...    *)
ShortTexts == LET Texts == UNION {[1..n -> Alphabet] : n \in 0..4}
              IN  Texts \cup {t \o <<NewLine>> : t \in Texts}

Nl == <<NewLine>>
Sp == <<Blank>>
T == <<"t">>
F == <<"f">>
R == <<"r">>
Y == <<"y">>
Bar == <<"|">>
Amp == <<"&">>
And == <<"&", "&">>
Or == <<"|", "|">>
Out == <<">">>
P == <<"p">>
Exit1 == <<"e", Blank, "1">>

(* ... and scripts that run pipelines, background lines and chains.        *)
Scripts ==
    {T \o Bar \o R \o Nl, Y \o Bar \o T \o Nl, Y \o Bar \o R \o Bar \o F \o Nl,
     T \o Bar \o R \o Bar \o R \o Nl, T \o Bar \o R \o Amp \o Nl \o F \o Nl,
     Y \o Bar \o R \o Bar \o T \o Amp \o Nl \o T \o Bar \o R \o Nl,
     F \o And \o T \o Nl, F \o Or \o T \o Bar \o R \o Nl, T \o And \o F \o Or \o T \o Nl,
     T \o Bar \o Exit1 \o Nl \o T \o Nl, Exit1 \o And \o T \o Nl, T \o And \o Exit1 \o Nl \o T \o Nl,
     <<"e", Blank, "1", "1", "1", "1">> \o Nl, Exit1 \o Out \o T \o Nl \o T \o Nl, Exit1 \o Nl \o T \o Nl, F \o Bar \o R \o Out \o T \o Nl,
     F \o Out \o Out \o T \o Amp \o Nl \o T \o Nl, <<"c">> \o And \o <<"c">> \o Sp \o T \o Nl,
     <<"c">> \o Sp \o T \o Bar \o T \o Nl, T \o Bar \o <<"c">> \o Sp \o T \o Nl,
     Y \o Bar \o R \o Bar \o R \o Bar \o T \o Amp \o Nl \o Y \o Bar \o T \o Amp \o Nl \o R \o Nl,
     <<"n">> \o Nl \o T \o Bar \o Nl \o F \o Nl, T \o Out \o Nl \o T \o Nl \o F \o Nl,
     R \o Sp \o P \o Amp \o Nl \o T \o Out \o P \o Nl, T \o Out \o P \o Amp \o Nl \o R \o Sp \o P \o Nl,
     Y \o Bar \o R \o Out \o P \o Amp \o Nl \o R \o Sp \o P \o Bar \o T \o Nl,
     T \o Out \o P \o Amp \o Nl \o T \o Nl \o R \o Sp \o P \o Nl,
     <<"'">> \o T \o <<"dq", Escape, "'">> \o Sp \o T \o Nl}

(* The names that are FIFOs.                                               *)
TheFifos == {P}

AllInputs == ShortTexts \cup Scripts
=============================================================================
