---- MODULE MCIni ----
\* Small texts: all that are made of a few pieces, and some of more lines.
EXTENDS Ini

MCLetter == {"a", "b"}

MCNames == {<<"a">>, <<"b">>}

Pieces ==
    { <<"a", "=", "b", "\n">>, <<"b", "=", "a", "\n">>, <<"[", "a", "]", "\n">>, <<"[", "b", "]">>,
      <<";", "a", "\n">>, <<"\n">>, <<" ">>, <<"\t">>, <<"a">>, <<"=">>, <<"[">>, <<"]">>, <<"?">> }

LinePieces ==
    { <<"a", "=", "b", "\n">>, <<"b", "=", "\t", "a", "\t", ";", "\n">>, <<"a", "\t", "=", "a", "\n">>,
      <<"[", "a", "]", "\n">>, <<"\t", "[", "b", "\t", "]", ";", "\n">> }

Made(pieces, count) == {FlattenSeq(parts) : parts \in [1 .. count -> pieces]}

MCTexts == UNION {Made(Pieces, count) : count \in 0 .. 3} \cup Made(LinePieces, 4)
====
