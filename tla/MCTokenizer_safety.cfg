SPECIFICATION FairSpec
CONSTANTS
    Texts <- MCTexts
    MaxIdle = 2
INVARIANT TypeOK
INVARIANT LexesLikeTheGrammar
PROPERTY TokensTileTheText
PROPERTY ReadingEnds
