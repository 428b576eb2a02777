------------------------------- MODULE Encoders -------------------------------
(***************************************************************************)
(* TextEncoder and ImageEncoder (src/embeddings) and the WordPiece         *)
(* Tokenizer they use: init, which may fail halfway and may be called      *)
(* again, encode and encode_batch, and what decode makes of the ids.       *)
(*                                                                         *)
(* A token is a sequence of characters; "[PAD]" and its like and "##" are  *)
(* one each.  ONNX Runtime is external: an embedding is what it is a mean  *)
(* of, the places the attention mask selects.                              *)
(***************************************************************************)
EXTENDS Integers, SequencesExt, FiniteSetsExt

CONSTANTS Configs,         \* [model |-> "missing", "corrupt" or a name, vocab |-> lines or NoFile]
          NoFile,
          Texts, Batches,  \* sequences of characters, sequences of texts
          Images,          \* names of image files
          Unreadable,      \* those that cannot be decoded
          max_seq_length

VARIABLES config_, tokenizer_, session_, ready_,   \* TextEncoder
          image_config, preprocessor_, image_session, image_ready,   \* ImageEncoder
          clean,   \* the last init of the TextEncoder succeeded, or none was called
          call     \* the last call and its answer

textVars == <<config_, tokenizer_, session_, ready_, clean>>
imageVars == <<image_config, preprocessor_, image_session, image_ready>>
vars == <<textVars, imageVars, call>>

Unset == <<>>
NoCall == [op |-> "none"]

Init == /\ config_ = Unset /\ tokenizer_ = Unset /\ session_ = Unset /\ ready_ = FALSE /\ clean = TRUE
        /\ image_config = Unset /\ preprocessor_ = Unset /\ image_session = Unset /\ image_ready = FALSE
        /\ call = NoCall

------------------------------------------------------------------------------
(* Tokenizer.  The id of a token is the number of its last line, among     *)
(* those that are not blank.                                               *)

PAD == <<"[PAD]">>
UNK == <<"[UNK]">>
CLS == <<"[CLS]">>
SEP == <<"[SEP]">>
Special == {PAD, UNK, CLS, SEP}
More == "##"   \* begins a token that continues a word

\* load_vocabulary.  Tokens are numbered from 0.
LinesOf(file) == SelectSeq(file, LAMBDA l : l # <<>>)
Loads(file) == Special \subseteq ToSet(LinesOf(file))
Has(lines, token) == token \in ToSet(lines)
IdOf(lines, token) == IF Has(lines, token) THEN SelectLastInSeq(lines, LAMBDA l : l = token) - 1
                      ELSE SelectLastInSeq(lines, LAMBDA l : l = UNK) - 1

\* basic_tokenize: words, and each punctuation mark by itself.
RECURSIVE Words(_, _)
Words(text, word) ==
    LET before == IF word = <<>> THEN <<>> ELSE <<word>>
    IN  IF text = <<>> THEN before
        ELSE CASE Head(text) = " " -> before \o Words(Tail(text), <<>>)
               [] Head(text) = "." -> before \o <<<<".">>>> \o Words(Tail(text), <<>>)
               [] OTHER -> Words(Tail(text), Append(word, Head(text)))

\* wordpiece_tokenize from start on: the longest token that is known, or [UNK]
\* for one character.
RECURSIVE Pieces(_, _, _)
Pieces(lines, word, start) ==
    IF start > Len(word) THEN <<>>
    ELSE LET piece(end) == (IF start > 1 THEN <<More>> ELSE <<>>) \o SubSeq(word, start, end)
             known == {end \in start .. Len(word) : Has(lines, piece(end))}
         IN  IF known = {} THEN <<UNK>> \o Pieces(lines, word, start + 1)
             ELSE <<piece(Max(known))>> \o Pieces(lines, word, Max(known) + 1)

Tokens(lines, text) == LET words == Words(text, <<>>)
                       IN  FlattenSeq([w \in DOMAIN words |-> Pieces(lines, words[w], 1)])

EncodeKeeping(lines, text, room) ==
    LET tokens == Tokens(lines, text)
        kept == <<CLS>> \o SubSeq(tokens, 1, Min({Len(tokens), room - 1}))
        framed == IF Len(kept) < max_seq_length THEN Append(kept, SEP) ELSE kept
    IN  [n \in 1 .. Max({max_seq_length, Len(framed)}) |-> IdOf(lines, IF n <= Len(framed) THEN framed[n] ELSE PAD)]

EncodeFull(lines, text) == EncodeKeeping(lines, text, max_seq_length)   \* mutant of Encode: no room for [SEP]

\* Tokenizer::encode: room is left for [SEP].
Encode(lines, text) == EncodeKeeping(lines, text, Max({1, max_seq_length - 1}))

\* decode, from the n-th id on; first: nothing but continuations so far.
RECURSIVE Decode(_, _, _, _)
Decode(lines, ids, n, first) ==
    IF n > Len(ids) THEN <<>>
    ELSE LET token == lines[ids[n] + 1]
         IN  IF token \in Special THEN Decode(lines, ids, n + 1, first)
             ELSE IF Head(token) = More THEN Tail(token) \o Decode(lines, ids, n + 1, first)
             ELSE (IF first THEN <<>> ELSE <<" ">>) \o token \o Decode(lines, ids, n + 1, FALSE)

------------------------------------------------------------------------------
(* TextEncoder.                                                            *)

TextInit(c) ==
    /\ config_' = c
    /\ clean' = (c.vocab # NoFile /\ Loads(c.vocab) /\ c.model \notin {"missing", "corrupt"})
    /\ tokenizer_' = IF c.model # "missing" /\ c.vocab # NoFile /\ Loads(c.vocab)
                     THEN LinesOf(c.vocab) ELSE tokenizer_
    /\ session_' = IF clean' THEN <<c.model>> ELSE session_
    /\ ready_' = (ready_ \/ clean')
    /\ call' = NoCall
    /\ UNCHANGED imageVars

\* The places of the ids the mask selects: all but those of id 0.
Attended(ids) == {n \in DOMAIN ids : ids[n] # 0}

Answer(lines, text) == [ids |-> Encode(lines, text), attended |-> Attended(Encode(lines, text))]

TextEncode(text) ==
    /\ ready_
    /\ call' = [op |-> "encode", texts |-> <<text>>, answers |-> <<Answer(tokenizer_, text)>>]
    /\ UNCHANGED <<textVars, imageVars>>

\* encode_batch: ids and masks are filled up to the longest with 0.
Filled(ids, length) == [n \in 1 .. length |-> IF n <= Len(ids) THEN ids[n] ELSE 0]

BatchAnswersBy(batch, mask(_)) ==
    LET ids == [b \in DOMAIN batch |-> Encode(tokenizer_, batch[b])]
        longest == Max({Len(ids[b]) : b \in DOMAIN batch})
    IN  [b \in DOMAIN batch |-> [ids |-> Filled(ids[b], longest), attended |-> Attended(ids[mask(b)])]]

BatchAnswersFirst(batch) == BatchAnswersBy(batch, LAMBDA b : 1)   \* mutant of BatchAnswers: one mask for all

BatchAnswers(batch) == BatchAnswersBy(batch, LAMBDA b : b)

TextEncodeBatch(batch) ==
    /\ ready_
    /\ call' = [op |-> "batch", texts |-> batch, answers |-> IF batch = <<>> THEN <<>> ELSE BatchAnswers(batch)]
    /\ UNCHANGED <<textVars, imageVars>>

------------------------------------------------------------------------------
(* ImageEncoder.  The preprocessor is made before the model is loaded.     *)

ImageInitReady(c) ==   \* mutant of ImageInit: ready before the model is loaded
    /\ image_config' = c
    /\ preprocessor_' = IF c.model = "missing" THEN preprocessor_ ELSE <<c.model>>
    /\ image_session' = IF c.model \in {"missing", "corrupt"} THEN image_session ELSE <<c.model>>
    /\ image_ready' = (image_ready \/ c.model # "missing")
    /\ call' = NoCall
    /\ UNCHANGED textVars

ImageInit(c) ==
    /\ image_config' = c
    /\ preprocessor_' = IF c.model = "missing" THEN preprocessor_ ELSE <<c.model>>
    /\ image_session' = IF c.model \in {"missing", "corrupt"} THEN image_session ELSE <<c.model>>
    /\ image_ready' = (image_ready \/ c.model \notin {"missing", "corrupt"})
    /\ call' = NoCall
    /\ UNCHANGED textVars

\* encode_batch, of which encode is the case of one: none where one fails.
ImageEncode(batch) ==
    /\ image_ready
    /\ call' = [op |-> "images", texts |-> batch,
                answers |-> IF ToSet(batch) \cap Unreadable # {} THEN <<>> ELSE batch]
    /\ UNCHANGED <<textVars, imageVars>>

TextNext == \/ \E c \in Configs : TextInit(c)
            \/ \E t \in Texts : TextEncode(t)
            \/ \E b \in Batches : TextEncodeBatch(b)

ImageNext == \/ \E c \in Configs : ImageInit(c)
             \/ \E b \in SeqOf(Images, 2) : ImageEncode(b)

\* The two share nothing: a behaviour is of one of them.
Next == \/ image_config = Unset /\ TextNext
        \/ config_ = Unset /\ ImageNext

Spec == Init /\ [][Next]_vars

------------------------------------------------------------------------------
TypeOK == /\ config_ \in Configs \cup {Unset} /\ ready_ \in BOOLEAN /\ clean \in BOOLEAN
          /\ image_config \in Configs \cup {Unset} /\ image_ready \in BOOLEAN

\* However often init is called and wherever it fails, an encoder that is ready
\* has all its parts; after an init that succeeded they are of one
\* configuration.
ReadyIsWhole ==
    /\ ready_ => tokenizer_ # Unset /\ session_ # Unset
    /\ ready_ /\ clean => tokenizer_ = LinesOf(config_.vocab) /\ session_ = <<config_.model>>
    /\ image_ready => preprocessor_ # Unset /\ image_session # Unset

\* Ids are as many as the model takes: [CLS], tokens, one [SEP], and [PAD]
\* behind it (where there is room for both marks); where [PAD] is the first line
\* of the vocabulary the mask selects all before the [PAD]s.
IdsAreFramed ==
    call.op \in {"encode", "batch"} => \A a \in ToSet(call.answers) :
       LET id(token) == IdOf(tokenizer_, token)
           ends == {n \in DOMAIN a.ids : a.ids[n] = id(SEP)}
       IN  /\ Len(a.ids) = max_seq_length /\ a.ids[1] = id(CLS)
           /\ max_seq_length > 1 => /\ Cardinality(ends) = 1
                                    /\ \A n \in DOMAIN a.ids : n > Max(ends) <=> a.ids[n] = id(PAD)
           /\ max_seq_length > 1 /\ id(PAD) = 0 => a.attended = 1 .. Max(ends)

\* A batch answers what its texts answer one by one.
BatchIsEach == call.op = "batch" => \A b \in DOMAIN call.texts : call.answers[b] = Answer(tokenizer_, call.texts[b])

\* Decoding gives back the words where all pieces are known and fit.
WordsComeBack ==
    call.op = "encode" =>
       LET words == Words(call.texts[1], <<>>)
           tokens == Tokens(tokenizer_, call.texts[1])
       IN  UNK \notin ToSet(tokens) /\ Len(tokens) <= max_seq_length - 2 =>
              Decode(tokenizer_, call.answers[1].ids, 1, TRUE)
                 = FlattenSeq([w \in DOMAIN words |-> (IF w = 1 THEN <<>> ELSE <<" ">>) \o words[w]])
==============================================================================
