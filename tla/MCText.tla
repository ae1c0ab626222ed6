-------------------------------- MODULE MCText --------------------------------
(***************************************************************************)
(* A small instance of TextFile: for each kind of file the characters at    *)
(* the boundaries of its ranges.                                           *)
(***************************************************************************)
EXTENDS TextFile

\* A, NEL, the last and first characters of 1, 2, 3 and 4 bytes of UTF-8, both
\* sides of the surrogates, the last of all
Characters == {65, 133, 2047, 2048, 55295, 57344, 65533, 65536, 1114111}
Bytes == {10, 65, 127, 128, 143, 144, 159, 160, 191, 192, 194, 224, 237, 239, 240, 244, 245, 255}

SomeAlphabet == [k \in Kinds |->
    CASE k \in UniKinds -> Characters
      [] k = "ebcdic" -> {65, 46, 133}
      [] k = "bytes" -> Bytes
      [] k = "lines" -> {10, 13, 133, 27, 65}
      [] k = "json" -> {"[", "]", "{", "}", ",", ":", "\"", "1", " "}
      [] k = "json-number" -> {"]", "1", "-", ".", "e", "+", "t", ",", " "}
      [] k = "json-string" -> {"\"", "\\", "u", "1", "111", "]", "nul"}
      [] k = "csv" -> {",", "\"", "nl", "a"}
      [] k = "tape" -> {0, 2, 3, 5, 10, 15}
      [] k = "chksum" -> {0, 32, 48, 50, 51, 65, 200}
      [] k = "der" -> {2, 31, 1, 3, 128, 129, 130}
      [] k = "number" -> {0, 2, 3}
      [] k = "match" -> {32, 65, 97}]
SomeMaxItems == [k \in Kinds |->
    CASE k \in UniKinds -> 3 [] k \in {"ebcdic", "bytes", "chksum"} -> 4 [] k \in {"lines"} -> 6
      [] k \in {"json", "json-string"} -> 6 [] k = "json-number" -> 5 [] k = "csv" -> 7 [] k = "tape" -> 6 [] k = "der" -> 5
      [] k = "number" -> 4 [] k = "match" -> 4]

\* Nothing, blanks at either end and in the middle, both cases.
SomeMagics == {<< >>, <<97>>, <<65, 97>>, <<97, 32>>, <<32, 97>>, <<97, 32, 65>>, <<32, 32>>, <<97, 32, 32, 97>>}

\* Around the ends of the signed and unsigned ranges of 2, 4 and 8 bits.
SomeNumbers == {-8, -2, -1, 0, 1, 3, 8, 15, 128}

\* Bound: a JSON file is written on only while it may still become one of the two, and one
\* that is about a string not behind the end of the array or of the text.
Bound == /\ kind = "json" /\ text # << >> => text[1] \in {"[", "{"}
         /\ kind = "json-string" => \A i \in DOMAIN text : text[i] \in {"]", "nul"} => i = Len(text)
=============================================================================
