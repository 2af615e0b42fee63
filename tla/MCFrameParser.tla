--------------------------- MODULE MCFrameParser ----------------------------
EXTENDS TextPadding

MCTextBox == <<1>>

\* The empty text, which fills its cell; the shortest that needs a second cell;
\* and one that fills two cells and ends in the marker and a zero.
MCTexts == {<<>>, <<4>>, <<0, 5, 4, 0, 0, 7, 4, 0>>}

\* One frame of every kind as its factory builds it, an empty payload, the
\* texts, one of which has the maximal size, one byte too many, and an unknown
\* action.
MCSendable ==
    {TextFrame(t) : t \in MCTexts} \cup
    {CreatePush(<<7>>, <<>>), CreatePoll(<<2>>), CreateAck(<<3>>, <<1>>),
     CreateAuthChallenge(<<0>>, <<4, 4>>), CreateAuthResponse(<<0>>, <<6>>),
     FrameOf(0, <<1>>, <<2>>), FrameOf(PUSH, <<1>>, Zeros(11))}
=============================================================================
