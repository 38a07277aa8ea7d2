---------------------------- MODULE MCGuardedTools ----------------------------
EXTENDS GuardedTools

AllAdapters == {LangChain, LangChainAsync, LangChainAsIs, LangGraph, AutoGen, OpenAI,
                AutoGenTool, OpenAITool, AsyncGate, AsyncGuard}
===============================================================================
